---- MODULE Spec2Model ----
(***************************************************************************)
(* A model of the resume parser: src/core/information_parser.py,           *)
(* src/core/text_extractor.py and src/run_parser.py.                       *)
(*                                                                         *)
(* Strings are sequences of one-character strings.  Offsets are Python's:  *)
(* offset i lies before the character s[i+1], and the slice s[a:b] is      *)
(* SubSeq(s, a+1, b).  A regular expression is a sequence of nodes and is  *)
(* matched the way Python's re module matches it: leftmost start, then the *)
(* first alternative the backtracking search reaches (greedy repetitions   *)
(* longest first, lazy ones shortest first).  The two non-ASCII characters *)
(* of the source are written "BULLET" (U+2022) and "ENDASH" (U+2013).      *)
(***************************************************************************)
EXTENDS Integers, Sequences, FiniteSets, TLC

VARIABLES
    pc,               \* position of the running function
    text,             \* the text argument of the function under analysis
    contact,          \* extract_contact_info: the mapping being built
    header_matches,   \* section_text: the (start, end, section_name) list
    idx,              \* section_text / parse_experience: loop index
    content,          \* section_text: contents cut by the loop, in loop order
    segmented_data,   \* section_text: the SectionMap being built
    job_blocks,       \* parse_experience: result of the split
    experiences,      \* parse_experience: the entries appended so far
    today,            \* datetime.now(), as <<year, month, day>>
    date_result,      \* parse_date_range: the returned pair
    env,              \* run_parser: argv, file system and decoder outcomes
    exit_status,      \* run_parser: the process exit status, -1 while running
    ner,              \* the entity recognizer's answer for the first two lines
    parsed_output,    \* parse_resume: the returned record
    locals,           \* parse_resume: its local variables, by name
    raised,           \* run_parser: the exception raised inside main, "" if none
    skill_lines,      \* parse_skills: its list `lines`, stripped and non-empty
    current_category, \* parse_skills: the category cursor, <<>> for None
    categorized_skills \* parse_skills: the mapping being built

vars == <<pc, text, contact, header_matches, idx, content, segmented_data,
          job_blocks, experiences, today, date_result, env, exit_status,
          ner, parsed_output, locals, raised, skill_lines, current_category,
          categorized_skills>>

\* the variables of parse_skills
skills_vars == <<skill_lines, current_category, categorized_skills>>

None == <<"None">>

----------------------------------------------------------------------------
(* Characters *)

LowerLetters == <<"a","b","c","d","e","f","g","h","i","j","k","l","m",
                  "n","o","p","q","r","s","t","u","v","w","x","y","z">>
UpperLetters == <<"A","B","C","D","E","F","G","H","I","J","K","L","M",
                  "N","O","P","Q","R","S","T","U","V","W","X","Y","Z">>
Digits == {"0","1","2","3","4","5","6","7","8","9"}
Spaces == {" ", "\n", "\t"}

LowerOf == [ch \in {UpperLetters[k] : k \in 1..26} |->
               LowerLetters[CHOOSE k \in 1..26 : UpperLetters[k] = ch]]
UpperOf == [ch \in {LowerLetters[k] : k \in 1..26} |->
               UpperLetters[CHOOSE k \in 1..26 : LowerLetters[k] = ch]]

IsLower(ch) == ch \in DOMAIN UpperOf
IsUpper(ch) == ch \in DOMAIN LowerOf
IsAlpha(ch) == IsLower(ch) \/ IsUpper(ch)
IsDigit(ch) == ch \in Digits
IsSpace(ch) == ch \in Spaces

LowerCh(ch) == IF IsUpper(ch) THEN LowerOf[ch] ELSE ch
UpperCh(ch) == IF IsLower(ch) THEN UpperOf[ch] ELSE ch

\* str.lower(), str.upper()
Lower(s) == [k \in 1..Len(s) |-> LowerCh(s[k])]
Upper(s) == [k \in 1..Len(s) |-> UpperCh(s[k])]

\* s[a:b] for 0 <= a, b <= len(s)
Slice(s, a, b) == SubSeq(s, a + 1, b)

\* str.strip()
RECURSIVE LStrip(_)
LStrip(s) == IF s # <<>> /\ IsSpace(Head(s)) THEN LStrip(Tail(s)) ELSE s
RECURSIVE RStrip(_)
RStrip(s) ==
    IF s # <<>> /\ IsSpace(s[Len(s)]) THEN RStrip(SubSeq(s, 1, Len(s) - 1)) ELSE s
Strip(s) == RStrip(LStrip(s))

\* the least and the greatest element of a set of integers
SetMin(S) == CHOOSE x \in S : \A y \in S : x <= y
SetMax(S) == CHOOSE x \in S : \A y \in S : x >= y

\* sub in s
StartsAt(s, sub, i) ==
    /\ i + Len(sub) <= Len(s)
    /\ \A k \in 1..Len(sub) : s[i + k] = sub[k]
Contains(s, sub) == \E i \in 0..(Len(s) - Len(sub)) : StartsAt(s, sub, i)

\* the character classes of the patterns; any other name is that one character
InClass(c, ch) ==
    CASE c = "email_local" -> IsAlpha(ch) \/ IsDigit(ch) \/ ch \in {".","_","%","+","-"}
      [] c = "email_dom"   -> IsAlpha(ch) \/ IsDigit(ch) \/ ch \in {".","-"}
      [] c = "alpha"       -> IsAlpha(ch)
      [] c = "digit"       -> IsDigit(ch)
      [] c = "space"       -> IsSpace(ch)
      [] c = "sep"         -> ch = "-" \/ IsSpace(ch)
      [] c = "ident"       -> IsAlpha(ch) \/ IsDigit(ch) \/ ch \in {"_","-"}
      [] c = "dom"         -> IsAlpha(ch) \/ IsDigit(ch) \/ ch = "-"
      [] c = "nonspace"    -> ~IsSpace(ch)
      [] c = "any"         -> TRUE
      [] c = "dot"         -> ch # "\n"
      [] c = "titlech"     -> IsAlpha(ch) \/ IsSpace(ch) \/ ch \in {".","&","/","-"}
      [] c = "loc"         -> IsAlpha(ch) \/ IsSpace(ch) \/ ch = ","
      [] c = "word"        -> IsAlpha(ch) \/ IsDigit(ch) \/ ch = "_"
      [] c = "bullet"      -> ch \in {"BULLET","*","-"}
      [] c = "delim"       -> ch \in {",",";"}
      [] c = "d01"         -> ch \in {"0","1"}
      [] c = "d02"         -> ch \in {"0","1","2"}
      [] c = "d12"         -> ch \in {"1","2"}
      [] c = "d19"         -> IsDigit(ch) /\ ch # "0"
      [] OTHER             -> ch = c

----------------------------------------------------------------------------
(* The regular expression matcher (Python's re) *)

Node(t, s, c, lo, hi, g, a) ==
    [t |-> t, s |-> s, c |-> c, lo |-> lo, hi |-> hi, g |-> g, a |-> a]
Lit(s)         == Node("lit", s, "", 0, 0, 0, <<>>)    \* a literal
LitI(s)        == Node("liti", s, "", 0, 0, 0, <<>>)   \* a literal under IGNORECASE
Rep(c, lo, hi) == Node("rep", <<>>, c, lo, hi, 0, <<>>)   \* [c]{lo,hi}, hi = -1: no limit
Lazy(c, lo, hi) == Node("lazy", <<>>, c, lo, hi, 0, <<>>) \* [c]{lo,hi}?
Open(g)        == Node("open", <<>>, "", 0, 0, g, <<>>)   \* "(" of group g
Close(g)       == Node("close", <<>>, "", 0, 0, g, <<>>)  \* ")" of group g
Alt(a)         == Node("alt", <<>>, "", 0, 0, 0, a)       \* (?:a1|a2|...)
Opt(b)         == Alt(<<b, <<>>>>)                        \* (?:b)?
Plus(b)        == Node("plus", <<>>, "", 0, 0, 0, <<b>>)  \* (?:b)+
Star(b)        == Node("star", <<>>, "", 0, 0, 0, <<b>>)  \* (?:b)*
Look(a)        == Node("look", <<>>, "", 0, 0, 0, a)      \* (?=a1|a2|...)
Bol            == Node("bol", <<>>, "", 0, 0, 0, <<>>)    \* ^ under MULTILINE
Eol            == Node("eol", <<>>, "", 0, 0, 0, <<>>)    \* $ under MULTILINE
Eos            == Node("eos", <<>>, "", 0, 0, 0, <<>>)    \* \Z
Dollar         == Node("dollar", <<>>, "", 0, 0, 0, <<>>) \* $ without MULTILINE
Wb             == Node("wb", <<>>, "", 0, 0, 0, <<>>)     \* \b

NoCaps == [g \in 1..4 |-> <<-1, -1, -1>>]   \* <<start, end, pending start>>
NoMatch == [ok |-> FALSE, start |-> -1, end |-> -1, caps |-> NoCaps]

\* how many characters of class c lead s[lo..hi], by halving the range
RECURSIVE RunIn(_, _, _, _)
RunIn(c, s, lo, hi) ==
    IF lo > hi THEN 0
    ELSE IF lo = hi THEN (IF InClass(c, s[lo]) THEN 1 ELSE 0)
    ELSE LET mid == (lo + hi) \div 2
             left == RunIn(c, s, lo, mid)
         IN  IF left < mid - lo + 1 THEN left ELSE left + RunIn(c, s, mid + 1, hi)

\* how many characters of class c follow offset i, at most hi of them
RunLen(c, s, i, hi) ==
    RunIn(c, s, i + 1, IF hi < 0 \/ i + hi > Len(s) THEN Len(s) ELSE i + hi)

LitAt(s, lit, i, ic) ==
    /\ i + Len(lit) <= Len(s)
    /\ \A k \in 1..Len(lit) :
          s[i + k] = lit[k] \/ (ic /\ LowerCh(s[i + k]) = LowerCh(lit[k]))

IsWordAt(s, i) == i >= 0 /\ i < Len(s) /\ InClass("word", s[i + 1])

RECURSIVE Match(_, _, _, _)
RECURSIVE TryDown(_, _, _, _, _, _)
RECURSIVE TryUp(_, _, _, _, _, _)
RECURSIVE TryAlts(_, _, _, _, _, _)

\* the first way, in backtracking order, to match the node sequence at offset i
Match(nodes, s, i, caps) ==
    IF nodes = <<>> THEN [ok |-> TRUE, start |-> -1, end |-> i, caps |-> caps]
    ELSE
    LET n == Head(nodes)
        rest == Tail(nodes)
    IN  CASE n.t = "lit" ->
               IF LitAt(s, n.s, i, FALSE) THEN Match(rest, s, i + Len(n.s), caps)
               ELSE NoMatch
          [] n.t = "liti" ->
               IF LitAt(s, n.s, i, TRUE) THEN Match(rest, s, i + Len(n.s), caps)
               ELSE NoMatch
          [] n.t = "rep" ->
               LET run == RunLen(n.c, s, i, n.hi)
               IN  IF run < n.lo THEN NoMatch
                   ELSE TryDown(rest, s, i, caps, n.lo, run)
          [] n.t = "lazy" ->
               LET run == RunLen(n.c, s, i, n.hi)
               IN  IF run < n.lo THEN NoMatch
                   ELSE TryUp(rest, s, i, caps, n.lo, run)
          [] n.t = "open" ->
               Match(rest, s, i,
                     [caps EXCEPT ![n.g] = <<caps[n.g][1], caps[n.g][2], i>>])
          [] n.t = "close" ->
               Match(rest, s, i,
                     [caps EXCEPT ![n.g] = <<caps[n.g][3], i, caps[n.g][3]>>])
          [] n.t = "alt" -> TryAlts(n.a, rest, s, i, caps, 1)
          [] n.t = "plus" -> Match(n.a[1] \o <<Star(n.a[1])>> \o rest, s, i, caps)
          [] n.t = "star" ->
               LET more == Match(n.a[1] \o <<n>> \o rest, s, i, caps)
               IN  IF more.ok THEN more ELSE Match(rest, s, i, caps)
          [] n.t = "look" ->
               IF TryAlts(n.a, <<>>, s, i, caps, 1).ok THEN Match(rest, s, i, caps)
               ELSE NoMatch
          [] n.t = "bol" ->
               IF i = 0 \/ s[i] = "\n" THEN Match(rest, s, i, caps) ELSE NoMatch
          [] n.t = "eol" ->
               IF i = Len(s) \/ s[i + 1] = "\n" THEN Match(rest, s, i, caps)
               ELSE NoMatch
          [] n.t = "eos" ->
               IF i = Len(s) THEN Match(rest, s, i, caps) ELSE NoMatch
          [] n.t = "dollar" ->
               IF i = Len(s) \/ (i = Len(s) - 1 /\ s[i + 1] = "\n")
               THEN Match(rest, s, i, caps) ELSE NoMatch
          [] n.t = "wb" ->
               IF IsWordAt(s, i - 1) # IsWordAt(s, i) THEN Match(rest, s, i, caps)
               ELSE NoMatch

\* a greedy repetition: the largest k in lo..hi after which the rest matches;
\* the range is searched by halves, upper half first
TryDown(rest, s, i, caps, lo, hi) ==
    IF lo > hi THEN NoMatch
    ELSE IF lo = hi THEN Match(rest, s, i + lo, caps)
    ELSE LET mid == (lo + hi) \div 2
             r == TryDown(rest, s, i, caps, mid + 1, hi)
         IN  IF r.ok THEN r ELSE TryDown(rest, s, i, caps, lo, mid)

\* a lazy repetition: the smallest k in lo..hi after which the rest matches
TryUp(rest, s, i, caps, lo, hi) ==
    IF lo > hi THEN NoMatch
    ELSE IF lo = hi THEN Match(rest, s, i + lo, caps)
    ELSE LET mid == (lo + hi) \div 2
             r == TryUp(rest, s, i, caps, lo, mid)
         IN  IF r.ok THEN r ELSE TryUp(rest, s, i, caps, mid + 1, hi)

\* the alternatives of a group, in order
TryAlts(alts, rest, s, i, caps, k) ==
    IF k > Len(alts) THEN NoMatch
    ELSE LET r == Match(alts[k] \o rest, s, i, caps)
         IN  IF r.ok THEN r ELSE TryAlts(alts, rest, s, i, caps, k + 1)

\* the match at the leftmost offset of lo..hi that has one
Started(m, i) == IF m.ok THEN [m EXCEPT !.start = i] ELSE NoMatch
RECURSIVE SearchIn(_, _, _, _)
SearchIn(re, s, lo, hi) ==
    IF lo > hi THEN NoMatch
    ELSE IF lo = hi THEN Started(Match(re, s, lo, NoCaps), lo)
    ELSE LET mid == (lo + hi) \div 2
             r == SearchIn(re, s, lo, mid)
         IN  IF r.ok THEN r ELSE SearchIn(re, s, mid + 1, hi)

\* re.search from offset `from`
SearchFrom(re, s, from) == SearchIn(re, s, from, Len(s))

Search(re, s) == SearchFrom(re, s, 0)

\* re.finditer: the non-overlapping matches, left to right
RECURSIVE FindIter(_, _, _)
FindIter(re, s, from) ==
    LET m == SearchFrom(re, s, from)
    IN  IF ~m.ok THEN <<>>
        ELSE <<m>> \o FindIter(re, s, IF m.end > m.start THEN m.end ELSE m.end + 1)

\* m.group(0), m.group(g); a group that took no part is the empty string here
Group0(s, m) == Slice(s, m.start, m.end)
Group(s, m, g) == IF m.caps[g][1] < 0 THEN <<>> ELSE Slice(s, m.caps[g][1], m.caps[g][2])
HasGroup(m, g) == m.caps[g][1] >= 0

----------------------------------------------------------------------------
(* Input texts: concatenations of at most n words of a vocabulary *)

RECURSIVE TextsOf(_, _)
TextsOf(vocab, n) ==
    IF n = 0 THEN {<<>>}
    ELSE LET shorter == TextsOf(vocab, n - 1)
         IN  shorter \cup {t \o w : t \in shorter, w \in vocab}

\* a Python dict is a function from its keys; {} is the empty function
EmptyDict == <<>>
Put(d, k, v) == [x \in (DOMAIN d) \cup {k} |-> IF x = k THEN v ELSE d[x]]
Has(d, k) == k \in DOMAIN d

----------------------------------------------------------------------------
(* extract_contact_info *)

\* [a-zA-Z0-9._%+-]+@[a-zA-Z0-9.-]+\.[a-zA-Z]{2,}
EMAIL_REGEX ==
    <<Rep("email_local", 1, -1), Lit(<<"@">>), Rep("email_dom", 1, -1),
      Lit(<<".">>), Rep("alpha", 2, -1)>>

\* (\(?\d{3}\)?[-\s]?\d{3}[-\s]?\d{4})
PHONE_REGEX ==
    <<Open(1), Rep("(", 0, 1), Rep("digit", 3, 3), Rep(")", 0, 1),
      Rep("sep", 0, 1), Rep("digit", 3, 3), Rep("sep", 0, 1),
      Rep("digit", 4, 4), Close(1)>>

\* (linkedin\.com/in/[a-zA-Z0-9_-]+), searched under IGNORECASE
LINKEDIN_REGEX ==
    <<Open(1), LitI(<<"l","i","n","k","e","d","i","n",".","c","o","m","/","i","n","/">>), Rep("ident", 1, -1), Close(1)>>

\* (github\.com/[a-zA-Z0-9_-]+), searched under IGNORECASE
GITHUB_REGEX ==
    <<Open(1), LitI(<<"g","i","t","h","u","b",".","c","o","m","/">>), Rep("ident", 1, -1), Close(1)>>

\* (https?://)?(www\.)?([a-zA-Z0-9-]+\.)+[a-zA-Z]{2,6}(?:/\S*)?, under IGNORECASE
WEBSITE_REGEX ==
    <<Opt(<<Open(1), LitI(<<"h","t","t","p">>), Opt(<<LitI(<<"s">>)>>), LitI(<<":","/","/">>), Close(1)>>),
      Opt(<<Open(2), LitI(<<"w","w","w",".">>), Close(2)>>),
      Plus(<<Open(3), Rep("dom", 1, -1), Lit(<<".">>), Close(3)>>),
      Rep("alpha", 2, 6),
      Opt(<<Lit(<<"/">>), Rep("nonspace", 0, -1)>>)>>

\* an optional value: a key that is set, or one that stays absent
Some(v) == [ok |-> TRUE, v |-> v]
Absent == [ok |-> FALSE, v |-> <<>>]
\* the dict holding the keys that are set
DictOf(opts) == [k \in {x \in DOMAIN opts : opts[x].ok} |-> opts[k].v]

\* emails[0] of emails = re.findall(EMAIL_REGEX, text)
FirstEmailLast(text_, emails) == Group0(text_, emails[Len(emails)])
FirstEmail(text_, emails) == Group0(text_, emails[1])

\* lines 146-148
EmailEntry(text_, emails) ==
    IF emails # <<>> THEN Some(Strip(FirstEmail(text_, emails))) ELSE Absent

\* lines 150-152: phones[0] is group 1 of the first match
MobileEntry(text_, m) == IF m.ok THEN Some(Strip(Group(text_, m, 1))) ELSE Absent

\* lines 154-160: group(0) of the first match
LinkEntry(text_, m) == IF m.ok THEN Some(Strip(Group0(text_, m))) ELSE Absent

\* "".join(url_parts).strip() for one tuple of re.findall(WEBSITE_REGEX, ...)
FullUrl(text_, m) == Strip(Group(text_, m, 1) \o Group(text_, m, 2) \o Group(text_, m, 3))

\* the condition of lines 166-170
WebsiteAccepted(full_url) ==
    /\ full_url # <<>>
    /\ ~Contains(Lower(full_url), <<"l","i","n","k","e","d","i","n",".","c","o","m">>)
    /\ ~Contains(Lower(full_url), <<"g","i","t","h","u","b",".","c","o","m">>)
    /\ ~Contains(Lower(full_url), <<"@","g","m","a","i","l",".","c","o","m">>)
    /\ ~Contains(Lower(full_url), <<"@","e","m","a","i","l",".","c","o","m">>)

\* the loop of lines 164-172: index of the first accepted match, 0 if none
RECURSIVE FirstAccepted(_, _, _)
FirstAccepted(text_, ms, k) ==
    IF k > Len(ms) THEN 0
    ELSE IF WebsiteAccepted(FullUrl(text_, ms[k])) THEN k
    ELSE FirstAccepted(text_, ms, k + 1)

\* lines 163-172
WebsiteAt(text_, website_matches, w) ==
    IF w # 0 THEN Some(FullUrl(text_, website_matches[w])) ELSE Absent
WebsiteEntry(text_, website_matches) ==
    WebsiteAt(text_, website_matches, FirstAccepted(text_, website_matches, 1))

ContactKeys == {"Email", "Mobile", "LinkedIn", "GitHub", "Website"}

extract_contact_info(text_) ==
    DictOf([k \in ContactKeys |->
        CASE k = "Email"    -> EmailEntry(text_, FindIter(EMAIL_REGEX, text_, 0))
          [] k = "Mobile"   -> MobileEntry(text_, Search(PHONE_REGEX, text_))
          [] k = "LinkedIn" -> LinkEntry(text_, Search(LINKEDIN_REGEX, text_))
          [] k = "GitHub"   -> LinkEntry(text_, Search(GITHUB_REGEX, text_))
          [] k = "Website"  -> WebsiteEntry(text_, FindIter(WEBSITE_REGEX, text_, 0))])

----------------------------------------------------------------------------
(* section_text *)

\* the keys of SECTION_HEADERS (lines 23-33)
SectionKeys ==
    {"professional_summary", "areas_of_expertise", "educational",
     "professional_experience", "projects", "awards", "certifications",
     "publications", "volunteer"}

\* the keys of header_patterns, in the order of the dict (lines 185-192)
HeaderNames ==
    <<"professional_summary", "areas_of_expertise", "educational",
      "professional_experience", "educational_details_bottom">>

\* header_patterns[name], matched under IGNORECASE
HeaderPattern(name) ==
    CASE name = "professional_summary" ->
           <<LitI(<<"P","r","o","f","e","s","s","i","o","n","a","l"," ","S","u","m","m","a","r","y",":">>), Rep("space", 0, -1)>>
      [] name = "areas_of_expertise" ->
           <<LitI(<<"A","R","E","A","S"," ","O","F"," ","E","X","P","E","R","T","I","S","E",":">>), Rep("space", 0, -1)>>
      [] name = "educational" ->
           <<LitI(<<"E","d","u","c","a","t","i","o","n","a","l",":">>), Rep("space", 0, -1)>>
      [] name = "professional_experience" ->
           <<LitI(<<"P","r","o","f","e","s","s","i","o","n","a","l"," ","E","x","p","e","r","i","e","n","c","e",":">>), Rep("space", 0, -1)>>
      [] name = "educational_details_bottom" ->
           <<LitI(<<"E","d","u","c","a","t","i","o","n","a","l"," ","D","e","t","a","i","l","s",":">>), Rep("space", 0, -1)>>

\* the tuples appended for one pattern (lines 198-199)
TuplesOf(ms, name) ==
    [k \in 1..Len(ms) |-> [start |-> ms[k].start, end |-> ms[k].end, section_name |-> name]]

\* lines 195-199: all patterns, in dict order
RECURSIVE CollectHeaders(_, _)
CollectHeaders(text_, k) ==
    IF k > Len(HeaderNames) THEN <<>>
    ELSE TuplesOf(FindIter(HeaderPattern(HeaderNames[k]), text_, 0), HeaderNames[k])
         \o CollectHeaders(text_, k + 1)

\* header_matches.sort() (line 202); two matches never share a start offset
SortMatchesNot(hm) == hm
SortMatches(hm) == SortSeq(hm, LAMBDA a, b : a.start < b.start)

\* next_start_idx of iteration i, counted from 0 (lines 206-208)
NextStartIdx(text_, hm, i) == IF i + 1 < Len(hm) THEN hm[i + 2].start ELSE Len(text_)

\* content of iteration i (line 210)
ContentOf(text_, hm, i) == Strip(Slice(text_, hm[i + 1].end, NextStartIdx(text_, hm, i)))

\* lines 213-217: store c under the standard section name
StoreAlways(sd, section_name, c) ==
    IF section_name = "educational_details_bottom"
    THEN [sd EXCEPT !["educational"] = c]
    ELSE [sd EXCEPT ![section_name] = c]
Store(sd, section_name, c) ==
    IF section_name = "educational_details_bottom"
    THEN IF sd["educational"] = <<>> THEN [sd EXCEPT !["educational"] = c] ELSE sd
    ELSE [sd EXCEPT ![section_name] = c]

\* str.split(sep) for a one-character separator: the pieces of s[lo..hi], by
\* halving the range and joining the two pieces that meet in the middle
JoinPieces(a, b) ==
    SubSeq(a, 1, Len(a) - 1) \o <<a[Len(a)] \o b[1]>> \o SubSeq(b, 2, Len(b))
RECURSIVE SplitIn(_, _, _, _)
SplitIn(s, sep, lo, hi) ==
    IF lo > hi THEN << <<>> >>
    ELSE IF lo = hi THEN (IF s[lo] = sep THEN << <<>>, <<>> >> ELSE << <<s[lo]>> >>)
    ELSE JoinPieces(SplitIn(s, sep, lo, (lo + hi) \div 2),
                    SplitIn(s, sep, (lo + hi) \div 2 + 1, hi))
SplitOn(s, sep) == SplitIn(s, sep, 1, Len(s))
Lines(s) == SplitOn(s, "\n")

\* "\n".join(lines)
RECURSIVE JoinLines(_)
JoinLines(ls) ==
    IF ls = <<>> THEN <<>>
    ELSE IF Len(ls) = 1 THEN ls[1]
    ELSE ls[1] \o <<"\n">> \o JoinLines(Tail(ls))

\* len(s.split()): the number of maximal runs of non-space characters
WordCount(s) ==
    Cardinality({k \in 1..Len(s) : ~IsSpace(s[k]) /\ (k = 1 \/ IsSpace(s[k - 1]))})

\* Professional Summary:\s*(.*?)(?=Email:|Mobile:|\n\n|\Z), DOTALL | IGNORECASE
SUMMARY_REGEX ==
    <<LitI(<<"P","r","o","f","e","s","s","i","o","n","a","l"," ","S","u","m","m","a","r","y",":">>), Rep("space", 0, -1),
      Open(1), Lazy("any", 0, -1), Close(1),
      Look(<< <<LitI(<<"E","m","a","i","l",":">>)>>, <<LitI(<<"M","o","b","i","l","e",":">>)>>, <<Lit(<<"\n","\n">>)>>, <<Eos>> >>)>>

\* the patterns of line 232, each searched under IGNORECASE
IsContactLine(line) ==
    \E re \in {EMAIL_REGEX, PHONE_REGEX, LINKEDIN_REGEX} : Search(re, line).ok

\* lines 231-235: the lines before the first contact line
RECURSIVE PotentialSummaryLines(_)
PotentialSummaryLines(ls) ==
    IF ls = <<>> THEN <<>>
    ELSE IF IsContactLine(ls[1]) THEN <<>>
    ELSE <<ls[1]>> \o PotentialSummaryLines(Tail(ls))

\* the number of words a summary candidate must exceed (line 237)
MinSummaryWords == 10

\* lines 236-238
WithCandidate(sd, summary_candidate) ==
    IF WordCount(summary_candidate) > MinSummaryWords
    THEN [sd EXCEPT !["professional_summary"] = summary_candidate]
    ELSE sd

\* lines 224-238
WithSummary(sd, intro_text, summary_match) ==
    IF summary_match.ok
    THEN [sd EXCEPT !["professional_summary"] = Strip(Group(intro_text, summary_match, 1))]
    ELSE WithCandidate(sd, Strip(JoinLines(PotentialSummaryLines(Lines(intro_text)))))

\* lines 220-238
IntroSummary(sd, text_, hm) ==
    IF hm = <<>> THEN sd
    ELSE WithSummary(sd, Strip(Slice(text_, 0, hm[1].start)),
                     Search(SUMMARY_REGEX, Strip(Slice(text_, 0, hm[1].start))))

EmptySections == [k \in SectionKeys |-> <<>>]

\* the loop of lines 205-217, from iteration i
RECURSIVE LoopFrom(_, _, _, _)
LoopFrom(sd, text_, hm, i) ==
    IF i >= Len(hm) THEN sd
    ELSE LoopFrom(Store(sd, hm[i + 1].section_name, ContentOf(text_, hm, i)),
                  text_, hm, i + 1)

SectionResult(text_, hm) == IntroSummary(LoopFrom(EmptySections, text_, hm, 0), text_, hm)

section_text(text_) == SectionResult(text_, SortMatches(CollectHeaders(text_, 1)))

----------------------------------------------------------------------------
(* parse_experience *)

\* re.split(re, s): the pieces of s between the matches of re
RECURSIVE PiecesBetween(_, _, _, _)
PiecesBetween(s, ms, k, from) ==
    IF k > Len(ms) THEN <<Slice(s, from, Len(s))>>
    ELSE <<Slice(s, from, ms[k].start)>> \o PiecesBetween(s, ms, k + 1, ms[k].end)
SplitRe(re, s) == PiecesBetween(s, FindIter(re, s, 0), 1, 0)

\* str.split(",")[0]
BeforeComma(s) ==
    IF \E k \in 1..Len(s) : s[k] = ","
    THEN SubSeq(s, 1, SetMin({k \in 1..Len(s) : s[k] = ","}) - 1)
    ELSE s

\* \nClient\n, under IGNORECASE (line 248)
MARKER_REGEX == <<LitI(<<"\n","C","l","i","e","n","t","\n">>)>>

\* Client\s*\n\s*(.*?)\nTitle\s*\n\s*(.*?)\nDuration\s*\n\s*(.*?)\n,
\* DOTALL | IGNORECASE (line 258)
CLIENT_REGEX ==
    <<LitI(<<"C","l","i","e","n","t">>), Rep("space", 0, -1), Lit(<<"\n">>), Rep("space", 0, -1),
      Open(1), Lazy("any", 0, -1), Close(1),
      LitI(<<"\n","T","i","t","l","e">>), Rep("space", 0, -1), Lit(<<"\n">>), Rep("space", 0, -1),
      Open(2), Lazy("any", 0, -1), Close(2),
      LitI(<<"\n","D","u","r","a","t","i","o","n">>), Rep("space", 0, -1), Lit(<<"\n">>), Rep("space", 0, -1),
      Open(3), Lazy("any", 0, -1), Close(3), Lit(<<"\n">>)>>

\* (?:TX|WI|IL|MA|WA|MD|CA), as written and under IGNORECASE
States ==
    Alt(<< <<Lit(<<"T","X">>)>>, <<Lit(<<"W","I">>)>>, <<Lit(<<"I","L">>)>>, <<Lit(<<"M","A">>)>>,
           <<Lit(<<"W","A">>)>>, <<Lit(<<"M","D">>)>>, <<Lit(<<"C","A">>)>> >>)
StatesI ==
    Alt(<< <<LitI(<<"T","X">>)>>, <<LitI(<<"W","I">>)>>, <<LitI(<<"I","L">>)>>, <<LitI(<<"M","A">>)>>,
           <<LitI(<<"W","A">>)>>, <<LitI(<<"M","D">>)>>, <<LitI(<<"C","A">>)>> >>)

\* ,\s*([A-Za-z\s,]+(?:TX|WI|IL|MA|WA|MD|CA)\b) (line 265)
LOCATION_REGEX ==
    <<Lit(<<",">>), Rep("space", 0, -1), Open(1), Rep("loc", 1, -1), States, Wb, Close(1)>>

\* the fallback pattern of line 270, under IGNORECASE; its "." after "company"
\* is unescaped and matches any character but a newline
LOCATION_FALLBACK_REGEX ==
    <<LitI(<<"\n","D","e","s","c","r","i","p","t","i","o","n",":">>), Rep("space", 0, -1),
      LitI(<<"T","h","e"," ","C","h","a","r","l","e","s"," ","S","c","h","w","a","b"," ","C","o","r","p","o","r","a","t","i","o","n"," ","i","s"," ","a","n"," ","A","m","e","r","i","c","a","n"," ","m","u","l","t","i","n","a","t","i","o","n","a","l"," ","f","i","n","a","n","c","i","a","l"," ","s","e","r","v","i","c","e","s"," ","c","o","m","p","a","n","y">>),
      Rep("dot", 1, 1), Lit(<<"\n">>), Rep("space", 0, -1),
      LitI(<<"R","e","s","p","o","n","s","i","b","i","l","i","t","i","e","s",":","\n">>), Lazy("any", 0, -1), LitI(<<"E","n","v","i","r","o","n","m","e","n","t",":">>),
      Lazy("any", 0, -1), Lit(<<",">>), Rep("space", 0, -1),
      Open(1), Rep("loc", 1, -1), StatesI, Wb, Close(1)>>

\* Responsibilities:\s*\n(.*?)(?=\nEnvironment:|\Z), DOTALL | IGNORECASE (line 275)
RESPONSIBILITIES_REGEX ==
    <<LitI(<<"R","e","s","p","o","n","s","i","b","i","l","i","t","i","e","s",":">>), Rep("space", 0, -1), Lit(<<"\n">>),
      Open(1), Lazy("any", 0, -1), Close(1),
      Look(<< <<LitI(<<"\n","E","n","v","i","r","o","n","m","e","n","t",":">>)>>, <<Eos>> >>)>>

\* ^\s*[\•*-]\s* (line 279)
BULLET_REGEX == <<Rep("space", 0, -1), Rep("bullet", 1, 1), Rep("space", 0, -1)>>

\* re.sub(r'^\s*[\•*-]\s*', '', line).strip()
CutBullet(line, m) == Strip(IF m.ok THEN Slice(line, m.end, Len(line)) ELSE line)
Unbulleted(line) == CutBullet(line, Match(BULLET_REGEX, line, 0, NoCaps))

\* the list comprehension of line 279
RECURSIVE NonEmpty(_)
NonEmpty(ss) ==
    IF ss = <<>> THEN <<>>
    ELSE (IF Head(ss) # <<>> THEN <<Head(ss)>> ELSE <<>>) \o NonEmpty(Tail(ss))
UnbulletAll(ls) == [k \in 1..Len(ls) |-> Unbulleted(ls[k])]
Responsibilities(resp_text) == NonEmpty(UnbulletAll(Lines(resp_text)))

\* lines 265-272: the Location key, from the Client line or from the fallback
LocationOf(block, client_line, location_match, fallback) ==
    IF location_match.ok THEN Some(Strip(Group(client_line, location_match, 1)))
    ELSE IF fallback.ok THEN Some(Strip(Group(block, fallback, 1)))
    ELSE Absent

\* lines 259-272: the keys set when the Client/Title/Duration pattern matched
ClientKeys(block, client_match, k) ==
    IF ~client_match.ok THEN Absent
    ELSE CASE k = "Client" -> Some(Strip(BeforeComma(Group(block, client_match, 1))))
           [] k = "Title" -> Some(Strip(Group(block, client_match, 2)))
           [] k = "Duration" -> Some(Strip(Group(block, client_match, 3)))
           [] k = "Location" ->
                LocationOf(block, Group(block, client_match, 1),
                           Search(LOCATION_REGEX, Group(block, client_match, 1)),
                           Search(LOCATION_FALLBACK_REGEX, block))

\* lines 275-280
ResponsibilitiesEntry(block, responsibilities_match) ==
    IF responsibilities_match.ok
    THEN Some(Responsibilities(Strip(Group(block, responsibilities_match, 1))))
    ELSE Absent

JobFields(block, client_match, responsibilities_match) ==
    DictOf([k \in {"Client", "Title", "Duration", "Location", "Responsibilities"} |->
        IF k = "Responsibilities"
        THEN ResponsibilitiesEntry(block, responsibilities_match)
        ELSE ClientKeys(block, client_match, k)])

\* current_job for one stripped, non-empty block (lines 255-280)
CurrentJob(block) ==
    JobFields(block, Search(CLIENT_REGEX, block), Search(RESPONSIBILITIES_REGEX, block))

\* one iteration of the loop of lines 250-283
AppendJob(exps, current_job) ==
    IF DOMAIN current_job # {} THEN Append(exps, current_job) ELSE exps
AfterBlock(exps, block) ==
    IF Strip(block) = <<>> THEN exps ELSE AppendJob(exps, CurrentJob(Strip(block)))

RECURSIVE BlocksFrom(_, _, _)
BlocksFrom(exps, blocks, k) ==
    IF k > Len(blocks) THEN exps
    ELSE BlocksFrom(AfterBlock(exps, blocks[k]), blocks, k + 1)

parse_experience(experience_text) ==
    BlocksFrom(<<>>, SplitRe(MARKER_REGEX, experience_text), 1)

----------------------------------------------------------------------------
(* parse_date_range *)

\* int() of a string of digits; a leading space (the " [1-9]" day) is skipped
DigitValue(ch) == CHOOSE v \in 0..9 : <<"0","1","2","3","4","5","6","7","8","9">>[v + 1] = ch
RECURSIVE ToInt(_)
ToInt(s) ==
    IF s = <<>> THEN 0
    ELSE IF s[Len(s)] = " " THEN 0
    ELSE 10 * ToInt(SubSeq(s, 1, Len(s) - 1)) + DigitValue(s[Len(s)])

\* str() of a natural number
RECURSIVE ToStr(_)
ToStr(n) ==
    IF n < 10 THEN <<(<<"0","1","2","3","4","5","6","7","8","9">>)[n + 1]>>
    ELSE ToStr(n \div 10) \o ToStr(n % 10)
Pad2(n) == IF n < 10 THEN <<"0">> \o ToStr(n) ELSE ToStr(n)

\* strftime("%Y") (not zero-padded by the C library) and strftime("%Y-%m-%d")
FormatYear(d) == ToStr(d[1])
FormatDate(d) == ToStr(d[1]) \o <<"-">> \o Pad2(d[2]) \o <<"-">> \o Pad2(d[3])

MonthNames ==
    << <<"j","a","n","u","a","r","y">>, <<"f","e","b","r","u","a","r","y">>, <<"m","a","r","c","h">>, <<"a","p","r","i","l">>, <<"m","a","y">>, <<"j","u","n","e">>, <<"j","u","l","y">>,
       <<"a","u","g","u","s","t">>, <<"s","e","p","t","e","m","b","e","r">>, <<"o","c","t","o","b","e","r">>, <<"n","o","v","e","m","b","e","r">>, <<"d","e","c","e","m","b","e","r">> >>
MonthAbbrs == [k \in 1..12 |-> SubSeq(MonthNames[k], 1, 3)]

\* the directives of _strptime, under IGNORECASE; groups: 1 = Y, 2 = m, 3 = d,
\* 4 = B or b
DirY == <<Open(1), Rep("digit", 4, 4), Close(1)>>
DirM ==
    <<Open(2),
      Alt(<< <<Lit(<<"1">>), Rep("d02", 1, 1)>>, <<Lit(<<"0">>), Rep("d19", 1, 1)>>,
             <<Rep("d19", 1, 1)>> >>),
      Close(2)>>
DirD ==
    <<Open(3),
      Alt(<< <<Lit(<<"3">>), Rep("d01", 1, 1)>>, <<Rep("d12", 1, 1), Rep("digit", 1, 1)>>,
             <<Lit(<<"0">>), Rep("d19", 1, 1)>>, <<Rep("d19", 1, 1)>>,
             <<Lit(<<" ">>), Rep("d19", 1, 1)>> >>),
      Close(3)>>
\* the month names, longest first as _strptime orders them
DirB ==
    <<Open(4),
      Alt(<< <<LitI(<<"s","e","p","t","e","m","b","e","r">>)>>, <<LitI(<<"f","e","b","r","u","a","r","y">>)>>, <<LitI(<<"n","o","v","e","m","b","e","r">>)>>,
             <<LitI(<<"d","e","c","e","m","b","e","r">>)>>, <<LitI(<<"j","a","n","u","a","r","y">>)>>, <<LitI(<<"o","c","t","o","b","e","r">>)>>,
             <<LitI(<<"a","u","g","u","s","t">>)>>, <<LitI(<<"m","a","r","c","h">>)>>, <<LitI(<<"a","p","r","i","l">>)>>,
             <<LitI(<<"j","u","n","e">>)>>, <<LitI(<<"j","u","l","y">>)>>, <<LitI(<<"m","a","y">>)>> >>),
      Close(4)>>
Dirb ==
    <<Open(4),
      Alt(<< <<LitI(<<"j","a","n">>)>>, <<LitI(<<"f","e","b">>)>>, <<LitI(<<"m","a","r">>)>>, <<LitI(<<"a","p","r">>)>>,
             <<LitI(<<"m","a","y">>)>>, <<LitI(<<"j","u","n">>)>>, <<LitI(<<"j","u","l">>)>>, <<LitI(<<"a","u","g">>)>>,
             <<LitI(<<"s","e","p">>)>>, <<LitI(<<"o","c","t">>)>>, <<LitI(<<"n","o","v">>)>>, <<LitI(<<"d","e","c">>)>> >>),
      Close(4)>>

\* the list `patterns` of lines 67-73, as the regular expressions of _strptime
DatePatterns ==
    << [name |-> "%B %Y", re |-> DirB \o <<Rep("space", 1, -1)>> \o DirY],
       [name |-> "%b %Y", re |-> Dirb \o <<Rep("space", 1, -1)>> \o DirY],
       [name |-> "%Y-%m-%d", re |-> DirY \o <<Lit(<<"-">>)>> \o DirM \o <<Lit(<<"-">>)>> \o DirD],
       [name |-> "%Y/%m/%d", re |-> DirY \o <<Lit(<<"/">>)>> \o DirM \o <<Lit(<<"/">>)>> \o DirD],
       [name |-> "%m/%d/%Y", re |-> DirM \o <<Lit(<<"/">>)>> \o DirD \o <<Lit(<<"/">>)>> \o DirY],
       [name |-> "%Y", re |-> DirY] >>

IsLeap(y) == (y % 4 = 0 /\ y % 100 # 0) \/ y % 400 = 0
DaysIn(y, m) ==
    IF m = 2 THEN (IF IsLeap(y) THEN 29 ELSE 28)
    ELSE IF m \in {4, 6, 9, 11} THEN 30 ELSE 31

\* the month a %B or %b group names
MonthOf(name) ==
    CHOOSE k \in 1..12 : Lower(name) = MonthNames[k] \/ Lower(name) = MonthAbbrs[k]

\* the <<year, month, day>> of a match; month and day default to 1
DateOf(s, m) ==
    << ToInt(Group(s, m, 1)),
       IF HasGroup(m, 4) THEN MonthOf(Group(s, m, 4))
       ELSE IF HasGroup(m, 2) THEN ToInt(Group(s, m, 2)) ELSE 1,
       IF HasGroup(m, 3) THEN ToInt(Group(s, m, 3)) ELSE 1 >>

\* datetime.strptime(d_str, pattern): a date, or ValueError when the pattern
\* does not match, data remains unconverted, or the date does not exist
Checked(d) ==
    IF d[1] >= 1 /\ d[3] <= DaysIn(d[1], d[2]) THEN [ok |-> TRUE, date |-> d]
    ELSE [ok |-> FALSE, date |-> d]
Converted(d_str, m) ==
    IF m.ok /\ m.end = Len(d_str) THEN Checked(DateOf(d_str, m))
    ELSE [ok |-> FALSE, date |-> <<0, 0, 0>>]
Strptime(d_str, pattern) == Converted(d_str, Match(pattern.re, d_str, 0, NoCaps))

\* line 80
Reformat(d_str, dt_obj) ==
    IF Len(d_str) = 4 THEN FormatYear(dt_obj.date) ELSE FormatDate(dt_obj.date)

\* _parse_single_date (lines 75-83), from the k-th pattern on
RECURSIVE ParseFrom(_, _)
Attempt(d_str, k, dt_obj) ==
    IF dt_obj.ok THEN Reformat(d_str, dt_obj) ELSE ParseFrom(d_str, k + 1)
ParseFrom(d_str, k) ==
    IF k > Len(DatePatterns) THEN d_str
    ELSE Attempt(d_str, k, Strptime(d_str, DatePatterns[k]))
parse_single_date(d_str) == ParseFrom(d_str, 1)

\* str.replace(old, new)
RECURSIVE Replace(_, _, _)
Replace(s, old, new) ==
    IF s = <<>> THEN <<>>
    ELSE IF StartsAt(s, old, 0)
    THEN new \o Replace(SubSeq(s, Len(old) + 1, Len(s)), old, new)
    ELSE <<Head(s)>> \o Replace(Tail(s), old, new)

\* lines 55-60: the en dash becomes a hyphen, "Present" the current date
Normalized(date_str, now) ==
    Replace(Strip(Replace(date_str, <<"ENDASH">>, <<"-">>)), <<"P","r","e","s","e","n","t">>, FormatDate(now))

\* lines 62-64
StartPart(parts) == Strip(parts[1])
EndPart(parts, now) == IF Len(parts) > 1 THEN Strip(parts[2]) ELSE FormatDate(now)

DateRangeOf(parts, now) ==
    <<parse_single_date(StartPart(parts)), parse_single_date(EndPart(parts, now))>>

parse_date_range(date_str, now) == DateRangeOf(SplitOn(Normalized(date_str, now), "-"), now)

----------------------------------------------------------------------------
(* extract_name_and_title *)

\* [line.strip() for line in text.split('\n') if line.strip()]
StripAll(ss) == [k \in 1..Len(ss) |-> Strip(ss[k])]
StrippedLines(s) == NonEmpty(StripAll(Lines(s)))

\* str.title(): a letter after a letter is lowered, any other letter is raised
TitleCase(s) ==
    [k \in 1..Len(s) |-> IF k > 1 /\ IsAlpha(s[k - 1]) THEN LowerCh(s[k]) ELSE UpperCh(s[k])]

\* str.isupper(): some cased character, none of them lower case
IsUpperStr(s) == (\E k \in 1..Len(s) : IsUpper(s[k])) /\ ~(\E k \in 1..Len(s) : IsLower(s[k]))

\* str.find(sub)
Find(s, sub) ==
    IF Contains(s, sub) THEN SetMin({i \in 0..(Len(s) - Len(sub)) : StartsAt(s, sub, i)})
    ELSE -1

\* nlp(lines[k]).ents: the recognizer is outside the program; its answer for line
\* k is no entity, or one entity spanning the line, labelled as ner_[k] says
Ents(ner_, k, line) ==
    IF ner_[k] = "" THEN <<>> ELSE <<[label_ |-> ner_[k], text |-> line]>>

\* the loops of lines 99-102 and 107-110
RECURSIVE PersonFrom(_, _)
PersonFrom(ents, k) ==
    IF k > Len(ents) THEN <<>>
    ELSE IF ents[k].label_ = "PERSON" /\ WordCount(ents[k].text) >= 2
    THEN TitleCase(ents[k].text)
    ELSE PersonFrom(ents, k + 1)

\* lines 97-110: the name the recognizer gives, from the first or second line
SecondLineName(lines, ner_) ==
    IF Len(lines) > 1 THEN PersonFrom(Ents(ner_, 2, lines[2]), 1) ELSE <<>>
FirstOr(first_name, lines, ner_) ==
    IF first_name # <<>> THEN first_name ELSE SecondLineName(lines, ner_)
RecognizedName(lines, ner_) ==
    IF Len(lines) > 0 THEN FirstOr(PersonFrom(Ents(ner_, 1, lines[1]), 1), lines, ner_)
    ELSE <<>>

TitleWords ==
    Alt(<< <<LitI(<<"D","e","v","e","l","o","p","e","r">>)>>, <<LitI(<<"E","n","g","i","n","e","e","r">>)>>, <<LitI(<<"M","a","n","a","g","e","r">>)>>,
           <<LitI(<<"A","n","a","l","y","s","t">>)>>, <<LitI(<<"S","p","e","c","i","a","l","i","s","t">>)>>, <<LitI(<<"A","r","c","h","i","t","e","c","t">>)>> >>)

\* ^\s*([A-Za-z\s.&/-]+(?:Developer|...|Architect)\s*)$, MULTILINE | IGNORECASE
TITLE_REGEX ==
    <<Bol, Rep("space", 0, -1), Open(1), Rep("titlech", 1, -1), TitleWords,
      Rep("space", 0, -1), Close(1), Eol>>

TitleWindow == 100
DirectTitleWindow == 300

\* lines 113-123: the title on a line of its own after the name
TitleOfMatch(after_name_text, title_match) ==
    IF title_match.ok /\ title_match.start < TitleWindow
    THEN Strip(Group(after_name_text, title_match, 1))
    ELSE <<>>
TitleIn(after_name_text) == TitleOfMatch(after_name_text, Search(TITLE_REGEX, after_name_text))
TitleFrom(text_, name, name_idx) ==
    IF name_idx # -1 THEN TitleIn(Slice(text_, name_idx + Len(name), Len(text_))) ELSE <<>>
TitleAfterName(text_, name) ==
    IF name # <<>> THEN TitleFrom(text_, name, Find(text_, name)) ELSE <<>>

\* lines 126-131: the first of the first three lines in capitals
IsCapitalsName(line) ==
    /\ WordCount(line) >= 2
    /\ IsUpperStr(line)
    /\ ~Contains(Upper(line), <<"D","E","V","E","L","O","P","E","R">>)
    /\ ~Contains(Upper(line), <<"E","M","A","I","L">>)
RECURSIVE CapitalsFrom(_, _)
CapitalsFrom(lines, i) ==
    IF i > Len(lines) \/ i > 3 THEN <<>>
    ELSE IF IsCapitalsName(lines[i]) THEN TitleCase(lines[i])
    ELSE CapitalsFrom(lines, i + 1)
NameOf(lines, name) == IF name # <<>> THEN name ELSE CapitalsFrom(lines, 1)

\* lines 133-137
DIRECT_TITLE_REGEX == <<LitI(<<"F","r","o","n","t"," ","E","n","d"," ","D","e","v","e","l","o","p","e","r">>)>>
DirectTitleAlways(title_match_direct) == <<"F","r","o","n","t"," ","E","n","d"," ","D","e","v","e","l","o","p","e","r">>
DirectTitle(title_match_direct) ==
    IF title_match_direct.ok /\ title_match_direct.start < DirectTitleWindow
    THEN <<"F","r","o","n","t"," ","E","n","d"," ","D","e","v","e","l","o","p","e","r">>
    ELSE <<>>
TitleOf(text_, title) ==
    IF title # <<>> THEN title ELSE DirectTitle(Search(DIRECT_TITLE_REGEX, text_))

NameAndTitle(text_, lines, name) ==
    <<NameOf(lines, name), TitleOf(text_, TitleAfterName(text_, name))>>
FromLines(text_, lines, ner_) == NameAndTitle(text_, lines, RecognizedName(lines, ner_))

extract_name_and_title(text_, ner_) == FromLines(text_, StrippedLines(text_), ner_)

----------------------------------------------------------------------------
(* parse_education *)

\* Bachelor of Technology in (.*?) from (.*?),\s*(.*), under IGNORECASE
BTECH_REGEX ==
    <<LitI(<<"B","a","c","h","e","l","o","r"," ","o","f"," ","T","e","c","h","n","o","l","o","g","y"," ","i","n"," ">>), Open(1), Lazy("dot", 0, -1), Close(1),
      LitI(<<" ","f","r","o","m"," ">>), Open(2), Lazy("dot", 0, -1), Close(2),
      Lit(<<",">>), Rep("space", 0, -1), Open(3), Rep("dot", 0, -1), Close(3)>>

\* Masters from (.*?),\s*(.*?)\.\n\s*\((\w+\s+\d{4})\s*-\s*(\w+\s+\d{4})\), IGNORECASE
MASTERS_REGEX ==
    <<LitI(<<"M","a","s","t","e","r","s"," ","f","r","o","m"," ">>), Open(1), Lazy("dot", 0, -1), Close(1),
      Lit(<<",">>), Rep("space", 0, -1), Open(2), Lazy("dot", 0, -1), Close(2),
      Lit(<<".","\n">>), Rep("space", 0, -1), Lit(<<"(">>),
      Open(3), Rep("word", 1, -1), Rep("space", 1, -1), Rep("digit", 4, 4), Close(3),
      Rep("space", 0, -1), Lit(<<"-">>), Rep("space", 0, -1),
      Open(4), Rep("word", 1, -1), Rep("space", 1, -1), Rep("digit", 4, 4), Close(4),
      Lit(<<")">>)>>

\* lines 296-301
BTechEntry(s, btech_match) ==
    [k \in {"Degree", "Field", "Institution"} |->
        CASE k = "Degree" -> <<"B",".","T","e","c","h">>
          [] k = "Field" -> Strip(Group(s, btech_match, 1))
          [] k = "Institution" ->
               Strip(Group(s, btech_match, 2)) \o <<","," ">> \o Strip(Group(s, btech_match, 3))]

\* lines 305-314
MastersEntry(s, masters_match) ==
    [k \in {"Degree", "Institution", "Location", "Duration"} |->
        CASE k = "Degree" -> <<"M","a","s","t","e","r","s">>
          [] k = "Institution" -> Strip(Group(s, masters_match, 1))
          [] k = "Location" -> Strip(Group(s, masters_match, 2))
          [] k = "Duration" ->
               Group(s, masters_match, 3) \o <<" ","-"," ">> \o Group(s, masters_match, 4)]

Educations(s, btech_match, masters_match) ==
    (IF btech_match.ok THEN <<BTechEntry(s, btech_match)>> ELSE <<>>)
    \o (IF masters_match.ok THEN <<MastersEntry(s, masters_match)>> ELSE <<>>)

parse_education(education_text) ==
    Educations(education_text, Search(BTECH_REGEX, education_text),
               Search(MASTERS_REGEX, education_text))

----------------------------------------------------------------------------
(* parse_skills *)

\* the keys of SKILL_CATEGORIES, in order; every keyword list is empty
SKILL_CATEGORIES ==
    << <<"W","e","b"," ","T","e","c","h","n","o","l","o","g","i","e","s">>, <<"W","e","b"," ","F","r","a","m","e","w","o","r","k","s">>, <<"D","a","t","a","b","a","s","e","s">>,
       <<"V","e","r","s","i","o","n"," ","C","o","n","t","r","o","l"," ","S","y","s","t","e","m">>, <<"P","r","o","j","e","c","t"," ","M","a","n","a","g","e","m","e","n","t"," ","a","n","d"," ","I","s","s","u","e"," ","T","r","a","c","k","i","n","g"," ","T","o","o","l">>,
       <<"T","e","s","t","i","n","g"," ","T","o","o","l","s">>, <<"W","e","b"," ","S","e","r","v","i","c","e","s">>, <<"W","e","b"," ","S","e","r","v","e","r","s">>, <<"O","t","h","e","r"," ","T","e","c","h","n","o","l","o","g","i","e","s">>,
       <<"D","e","v","O","p","s"," ","P","r","a","c","t","i","c","e","s">> >>

\* lines 329-335: the category a line names, <<>> if none
RECURSIVE CategoryFrom(_, _)
CategoryFrom(line, k) ==
    IF k > Len(SKILL_CATEGORIES) THEN <<>>
    ELSE IF Lower(line) = Lower(SKILL_CATEGORIES[k]) THEN SKILL_CATEGORIES[k]
    ELSE CategoryFrom(line, k + 1)

\* [,\;]+
DELIMITER_REGEX == <<Rep("delim", 1, -1)>>

\* lines 340-349: the cleaned, non-empty skills of a line
SkillsOnLine(line) == NonEmpty(StripAll(SplitRe(DELIMITER_REGEX, line)))

\* one iteration of the loop of lines 327-349, on <<categorized_skills, current_category>>
SkillsStepKeep(st, line, found) ==
    IF found # <<>>
    THEN <<IF Has(st[1], found) THEN st[1] ELSE Put(st[1], found, <<>>), found>>
    ELSE IF st[2] # <<>> THEN <<Put(st[1], st[2], st[1][st[2]] \o SkillsOnLine(line)), st[2]>>
    ELSE st
SkillsStep(st, line, found) ==
    IF found # <<>> THEN <<Put(st[1], found, <<>>), found>>
    ELSE IF st[2] # <<>> THEN <<Put(st[1], st[2], st[1][st[2]] \o SkillsOnLine(line)), st[2]>>
    ELSE st

RECURSIVE SkillsFrom(_, _, _)
SkillsFrom(st, lines, k) ==
    IF k > Len(lines) THEN st[1]
    ELSE SkillsFrom(SkillsStep(st, lines[k], CategoryFrom(lines[k], 1)), lines, k + 1)

parse_skills(skills_text) == SkillsFrom(<<EmptyDict, <<>>>>, StrippedLines(skills_text), 1)

----------------------------------------------------------------------------
(* parse_projects *)

\* E-commerce Recommendation System\s*-\s*(.*?)(Link:\s*(.*?))?$, DOTALL | IGNORECASE
PROJECT_REGEX ==
    <<LitI(<<"E","-","c","o","m","m","e","r","c","e"," ","R","e","c","o","m","m","e","n","d","a","t","i","o","n"," ","S","y","s","t","e","m">>), Rep("space", 0, -1), Lit(<<"-">>),
      Rep("space", 0, -1), Open(1), Lazy("any", 0, -1), Close(1),
      Opt(<<Open(2), LitI(<<"L","i","n","k",":">>), Rep("space", 0, -1),
            Open(3), Lazy("any", 0, -1), Close(3), Close(2)>>),
      Dollar>>

\* the alternatives of tech_regex (line 378), in order, under IGNORECASE
TECH_REGEX ==
    <<Alt(<< <<LitI(<<"P","y","t","h","o","n">>)>>, <<LitI(<<"T","e","n","s","o","r","F","l","o","w">>)>>, <<LitI(<<"P","a","n","d","a","s">>)>>,
             <<LitI(<<"R","e","a","c","t",".","j","s">>)>>, <<LitI(<<"N","o","d","e",".","j","s">>)>>, <<LitI(<<"E","x","p","r","e","s","s">>)>>,
             <<LitI(<<"M","o","n","g","o","D","B">>)>>, <<LitI(<<"H","T","M","L","5">>)>>, <<LitI(<<"C","S","S","3">>)>>,
             <<LitI(<<"S","A","S","S">>)>>, <<LitI(<<"J","a","v","a","S","c","r","i","p","t">>)>>, <<LitI(<<"T","y","p","e","S","c","r","i","p","t">>)>>,
             <<LitI(<<"M","a","t","e","r","i","a","l","-","U","I">>)>>, <<LitI(<<"R","e","a","c","t"," ","R","e","d","u","x">>)>>, <<LitI(<<"C","y","p","r","e","s","s">>)>>,
             <<LitI(<<"C","y","a","r","a">>)>>, <<LitI(<<"J","S","O","N">>)>>, <<LitI(<<"N","P","M">>)>>,
             <<LitI(<<"A","x","i","o","s">>)>>, <<LitI(<<"B","i","t","b","u","c","k","e","t">>)>>, <<LitI(<<"J","i","r","a">>)>>,
             <<LitI(<<"A","W","S">>)>>, <<LitI(<<"A","g","i","l","e","/","S","c","r","u","m">>)>> >>)>>

\* the code point of a character; DQUOTE, BACKSLASH and BACKTICK stand
\* for those three characters, which no text of the model holds
Ascii ==
    << " ","!","DQUOTE","#","$","%","&","'","(",")","*","+",",","-",".","/",
       "0","1","2","3","4","5","6","7","8","9",":",";","<","=",">","?",
       "@","A","B","C","D","E","F","G","H","I","J","K","L","M","N","O",
       "P","Q","R","S","T","U","V","W","X","Y","Z","[","BACKSLASH","]","^","_",
       "BACKTICK","a","b","c","d","e","f","g","h","i","j","k","l","m","n","o",
       "p","q","r","s","t","u","v","w","x","y","z","{","|","}","~" >>
Ord(ch) ==
    CASE ch = "\n" -> 10
      [] ch = "\t" -> 9
      [] ch = "ENDASH" -> 8211
      [] ch = "BULLET" -> 8226
      [] OTHER -> 31 + (CHOOSE k \in 1..Len(Ascii) : Ascii[k] = ch)

\* a < b for Python strings
RECURSIVE StrLess(_, _)
StrLess(a, b) ==
    IF b = <<>> THEN FALSE
    ELSE IF a = <<>> THEN TRUE
    ELSE IF Head(a) = Head(b) THEN StrLess(Tail(a), Tail(b))
    ELSE Ord(Head(a)) < Ord(Head(b))

\* sorted(list(set(technologies)))
RECURSIVE Sorted(_)
Sorted(S) ==
    IF S = {} THEN <<>>
    ELSE LET least == CHOOSE x \in S : \A y \in S : x = y \/ StrLess(x, y)
         IN  <<least>> \o Sorted(S \ {least})

\* lines 370-382: the keyword lists of SKILL_CATEGORIES are empty, so the
\* technologies are the matches of tech_regex
Technologies(description, tech_matches) ==
    Sorted({Group0(description, tech_matches[k]) : k \in 1..Len(tech_matches)})

\* lines 366-389
ProjectEntry(description, link) ==
    [k \in {"title", "description", "technologies", "link"} |->
        CASE k = "title" -> <<"E","-","c","o","m","m","e","r","c","e"," ","R","e","c","o","m","m","e","n","d","a","t","i","o","n"," ","S","y","s","t","e","m">>
          [] k = "description" -> description
          [] k = "technologies" -> Technologies(description, FindIter(TECH_REGEX, description, 0))
          [] k = "link" -> link]

Projects(s, project_match) ==
    IF project_match.ok
    THEN <<ProjectEntry(Strip(Group(s, project_match, 1)), Strip(Group(s, project_match, 3)))>>
    ELSE <<>>

parse_projects(projects_text) == Projects(projects_text, Search(PROJECT_REGEX, projects_text))

----------------------------------------------------------------------------
(* parse_resume *)

\* dict.get(key, "")
Get(d, k) == IF Has(d, k) THEN d[k] ELSE <<>>

\* lines 428-439
ParsedOutput(l) ==
    [Name |-> l.name, Title |-> l.overall_title, Contact |-> l.contact_info,
     Summary |-> l.summary, Skills |-> l.skills_data, Education |-> l.education_data,
     Experience |-> l.experience_data, Projects |-> l.projects_data,
     Awards |-> <<>>, Certifications |-> <<>>]

----------------------------------------------------------------------------
(* The variables a function under analysis does not use stay idle *)

Idle ==
    /\ contact = None /\ header_matches = None /\ idx = 0 /\ content = None
    /\ segmented_data = None /\ job_blocks = None /\ experiences = None
    /\ today = None /\ date_result = None /\ env = None /\ exit_status = -1
    /\ ner = None /\ parsed_output = None /\ locals = None /\ raised = ""
    /\ skill_lines = None /\ current_category = None /\ categorized_skills = None


----------------------------------------------------------------------------
(* Specification of extract_contact_info on bounded texts *)

MaxContactWords == 3

ContactVocab ==
    { <<"@">>, <<"b",".","c","o">>, <<"x">>, <<" ">>, <<"j","o","@","g","m","a","i","l",".","c","o","m">>, <<"a","l","@","c",".","o","r","g">>,
      <<"l","i","n","k","e","d","i","n",".","c","o","m","/","i","n","/","j","o">>, <<"g","i","t","h","u","b",".","c","o","m","/","j","o">>, <<"h","t","t","p","s",":","/","/","w","w","w",".">>,
      <<"(","5","5","5",")"," ","1","2","3","-","4","5","6","7">> }

InitContact ==
    /\ pc = "extract_contact_info"
    /\ text \in TextsOf(ContactVocab, MaxContactWords)
    /\ Idle

ExtractContactInfo ==
    /\ pc = "extract_contact_info"
    /\ contact' = extract_contact_info(text)
    /\ pc' = "done"
    /\ UNCHANGED <<skills_vars, text, header_matches, idx, content, segmented_data, job_blocks,
                   experiences, today, date_result, env, exit_status, ner,
                   parsed_output, locals, raised>>

NextContact == ExtractContactInfo

SpecContact == InitContact /\ [][NextContact]_vars

----------------------------------------------------------------------------
(* Claims about extract_contact_info *)

\* s, whole, has the shape of EMAIL_REGEX: local part, "@", domain, ".", letters
IsEmailAddress(s) ==
    \E a \in 2..Len(s) : \E d \in (a + 2)..(Len(s) - 2) :
        /\ s[a] = "@"
        /\ s[d] = "."
        /\ \A k \in 1..(a - 1) : InClass("email_local", s[k])
        /\ \A k \in (a + 1)..(d - 1) : InClass("email_dom", s[k])
        /\ \A k \in (d + 1)..Len(s) : IsAlpha(s[k])

\* the offsets of text_ at which some email address starts
EmailStarts(text_) ==
    {a \in 0..Len(text_) : \E b \in a..Len(text_) : IsEmailAddress(Slice(text_, a, b))}

\* C8: when the text holds an email address, Email is the first one in document
\* order (the address starting leftmost, taken to its full length); when it
\* holds none, the Email key is absent.
C8_EmailIsFirstAddress ==
    pc = "done" =>
        LET starts == EmailStarts(text)
        IN  IF starts = {} THEN ~Has(contact, "Email")
            ELSE LET a == SetMin(starts)
                     b == SetMax({e \in a..Len(text) : IsEmailAddress(Slice(text, a, e))})
                 IN  Has(contact, "Email") /\ contact["Email"] = Slice(text, a, b)

\* C8 witness: a text with two email addresses has been processed
C8_Witness ==
    /\ pc = "done"
    /\ Len(FindIter(EMAIL_REGEX, text, 0)) >= 2
    /\ Has(contact, "Email")

\* every URL-like substring of text_ lies inside one of its email addresses
UrlsOnlyInEmails(text_) ==
    LET emails == FindIter(EMAIL_REGEX, text_, 0)
        urls == FindIter(WEBSITE_REGEX, text_, 0)
    IN  /\ emails # <<>>
        /\ \A u \in 1..Len(urls) : \E e \in 1..Len(emails) :
               emails[e].start <= urls[u].start /\ urls[u].end <= emails[e].end

\* C7: a text whose only URL-like substrings are inside email addresses gets
\* no Website key (an email's domain is never classified as a Website).
C7_EmailDomainNotWebsite ==
    (pc = "done" /\ UrlsOnlyInEmails(text)) => ~Has(contact, "Website")

----------------------------------------------------------------------------
(* Specification of section_text, one step per loop iteration *)

MaxSectionWords == 4

SectionVocab ==
    { <<"P","r","o","f","e","s","s","i","o","n","a","l"," ","S","u","m","m","a","r","y",":">>, <<"e","d","u","c","a","t","i","o","n","a","l",":">>, <<"E","d","u","c","a","t","i","o","n","a","l"," ","D","e","t","a","i","l","s",":">>,
      <<"w","\n">>, <<"a","@","b",".","c","o">>, <<"a"," ","b"," ","c"," ","d"," ","e"," ","f"," ","g"," ","h"," ","i"," ","j","\n">> }

InitSection ==
    /\ pc = "section_text"
    /\ text \in TextsOf(SectionVocab, MaxSectionWords)
    /\ contact = None /\ header_matches = <<>> /\ idx = 0 /\ content = <<>>
    /\ segmented_data = EmptySections /\ job_blocks = None /\ experiences = None
    /\ today = None /\ date_result = None /\ env = None /\ exit_status = -1
    /\ ner = None /\ parsed_output = None /\ locals = None /\ raised = ""
    /\ skill_lines = None /\ current_category = None /\ categorized_skills = None

\* lines 181-202
SectionFindHeaders ==
    /\ pc = "section_text"
    /\ header_matches' = SortMatches(CollectHeaders(text, 1))
    /\ pc' = "section_loop"
    /\ UNCHANGED <<skills_vars, text, contact, idx, content, segmented_data, job_blocks,
                   experiences, today, date_result, env, exit_status, ner,
                   parsed_output, locals, raised>>

\* one iteration of lines 205-217
SectionLoopStep ==
    /\ pc = "section_loop"
    /\ idx < Len(header_matches)
    /\ content' = Append(content, ContentOf(text, header_matches, idx))
    /\ segmented_data' = Store(segmented_data, header_matches[idx + 1].section_name,
                               ContentOf(text, header_matches, idx))
    /\ idx' = idx + 1
    /\ UNCHANGED <<skills_vars, pc, text, contact, header_matches, job_blocks, experiences,
                   today, date_result, env, exit_status, ner, parsed_output, locals, raised>>

\* lines 219-240
SectionIntro ==
    /\ pc = "section_loop"
    /\ idx = Len(header_matches)
    /\ segmented_data' = IntroSummary(segmented_data, text, header_matches)
    /\ pc' = "done"
    /\ UNCHANGED <<skills_vars, text, contact, header_matches, idx, content, job_blocks,
                   experiences, today, date_result, env, exit_status, ner,
                   parsed_output, locals, raised>>

NextSection == SectionFindHeaders \/ SectionLoopStep \/ SectionIntro

SpecSection == InitSection /\ [][NextSection]_vars

----------------------------------------------------------------------------
(* Claims about section_text *)

\* the literal each header pattern starts with
HeaderLiteral(name) == HeaderPattern(name)[1].s

\* the start offset of the header after the i-th (1-based), or the document end
NextStart(i) ==
    IF i < Len(header_matches) THEN header_matches[i + 1].start ELSE Len(text)

\* the text between the end of the i-th header and the next header
Between(i) == Slice(text, header_matches[i].end, NextStart(i))

\* c is region without the whitespace at its two ends
StrippedFrom(c, region) ==
    \E a \in 0..Len(region) : \E b \in a..Len(region) :
        /\ Slice(region, a, b) = c
        /\ \A k \in 1..a : IsSpace(region[k])
        /\ \A k \in (b + 1)..Len(region) : IsSpace(region[k])
        /\ c # <<>> => ~IsSpace(c[1]) /\ ~IsSpace(c[Len(c)])

\* Between(i), header i+1, Between(i+1), ..., up to the document end
RECURSIVE Glue(_)
Glue(i) ==
    IF i > Len(header_matches) THEN <<>>
    ELSE Between(i)
         \o (IF i < Len(header_matches)
             THEN Slice(text, header_matches[i + 1].start, header_matches[i + 1].end)
             ELSE <<>>)
         \o Glue(i + 1)

RECURSIVE Flatten(_)
Flatten(ss) == IF ss = <<>> THEN <<>> ELSE Head(ss) \o Flatten(Tail(ss))

\* C1 as stated: the section contents, concatenated in document order, equal the
\* text from the end of the first header to the end of the document.
C1_ContentsConcatenate ==
    (pc = "done" /\ header_matches # <<>>) =>
        Flatten(content) = Slice(text, header_matches[1].end, Len(text))

\* C1 as amended: header_matches lists every header occurrence in document order
\* without overlap; the content cut for a header is the text strictly between
\* that header's end and the next header's start (or the document end) with the
\* whitespace at its ends stripped; and those between-header texts, interleaved
\* with the headers H2..Hn, concatenate to the text from the end of H1 to the
\* end of the document.
C1_SectionsTile ==
    pc = "done" =>
        /\ Len(content) = Len(header_matches)
        /\ {header_matches[i].start : i \in 1..Len(header_matches)}
             = {p \in 0..Len(text) :
                   \E k \in 1..Len(HeaderNames) :
                       LitAt(text, HeaderLiteral(HeaderNames[k]), p, TRUE)}
        /\ \A i \in 1..Len(header_matches) :
              /\ header_matches[i].start < header_matches[i].end
              /\ header_matches[i].end <= NextStart(i)
              /\ LitAt(text, HeaderLiteral(header_matches[i].section_name),
                       header_matches[i].start, TRUE)
              /\ StrippedFrom(content[i], Between(i))
        /\ header_matches # <<>> =>
              Glue(1) = Slice(text, header_matches[1].end, Len(text))

\* C1 witness: two headers of different kinds, each with content, were processed
C1_Witness ==
    /\ pc = "done"
    /\ Len(header_matches) >= 2
    /\ header_matches[1].section_name # header_matches[2].section_name
    /\ content[1] # <<>> /\ content[2] # <<>>

\* the section key a header name is stored under
KeyOf(name) == IF name = "educational_details_bottom" THEN "educational" ELSE name

\* the (1-based) iterations whose header has the given name / maps to the key
Occurrences(name) ==
    {i \in 1..Len(header_matches) : header_matches[i].section_name = name}
OccurrencesOfKey(k) ==
    {i \in 1..Len(header_matches) : KeyOf(header_matches[i].section_name) = k}

LoopDone == pc = "section_loop" /\ idx = Len(header_matches)

\* C2 as stated: under each key the first occurrence wins; a later occurrence
\* is used only while the key's block is still empty.
C2_FirstOccurrenceWins ==
    LoopDone =>
        \A k \in SectionKeys :
            LET filled == {i \in OccurrencesOfKey(k) : content[i] # <<>>}
            IN  segmented_data[k] =
                    IF filled = {} THEN <<>> ELSE content[SetMin(filled)]

\* what the loop leaves under "educational"
ExpectedEducational ==
    LET E == Occurrences("educational")
        lastE == IF E = {} THEN 0 ELSE SetMax(E)
        fills == {i \in Occurrences("educational_details_bottom") :
                      i > lastE /\ content[i] # <<>>}
    IN  IF lastE # 0 /\ content[lastE] # <<>> THEN content[lastE]
        ELSE IF fills = {} THEN <<>>
        ELSE content[SetMin(fills)]

\* C2 as amended: when the loop ends, an "Educational Details:" occurrence has
\* been stored only if the educational block was still empty when it was
\* processed, every "Educational:" occurrence has overwritten that block, and
\* under every other key the last occurrence in document order is stored.
C2_DetailsFillOnlyEmpty ==
    LoopDone =>
        /\ segmented_data["educational"] = ExpectedEducational
        /\ \A k \in SectionKeys \ {"educational"} :
              segmented_data[k] =
                  IF Occurrences(k) = {} THEN <<>> ELSE content[SetMax(Occurrences(k))]

\* C2 witness: an "Educational Details:" block was met after a filled
\* "Educational:" block with other content
C2_Witness ==
    /\ LoopDone
    /\ \E i \in Occurrences("educational") :
         \E j \in Occurrences("educational_details_bottom") :
            /\ i < j
            /\ content[i] # <<>> /\ content[j] # <<>> /\ content[i] # content[j]


\* the occurrences (1-based) of the "Professional Summary:" header
SummaryHeaders ==
    {i \in 1..Len(header_matches) : header_matches[i].section_name = "professional_summary"}

\* the introductory text before the first header, up to its first contact line
IntroCandidate ==
    Strip(JoinLines(PotentialSummaryLines(
        Lines(Strip(Slice(text, 0, header_matches[1].start))))))

\* C13: when the text has a "Professional Summary:" header, the
\* professional_summary block is the text between that header's end and the
\* next header's start (or the document end), whatever precedes the first
\* header; without such a header the introductory text is the summary only if
\* it has more than ten words before the first contact line.
C13_SummaryFromHeader ==
    pc = "done" =>
        IF SummaryHeaders # {}
        THEN \E i \in SummaryHeaders :
                segmented_data["professional_summary"] = ContentOf(text, header_matches, i - 1)
        ELSE \/ segmented_data["professional_summary"] = <<>>
             \/ /\ header_matches # <<>>
                /\ segmented_data["professional_summary"] = IntroCandidate
                /\ WordCount(IntroCandidate) > MinSummaryWords
----------------------------------------------------------------------------
(* Specification of parse_experience, one step per job block *)

MaxExperienceWords == 4

ExperienceVocab ==
    { <<"C","l","i","e","n","t","\n","A","c","m","e",","," ","A","u","s","t","i","n",","," ","T","X","\n","T","i","t","l","e","\n","D","e","v","\n","D","u","r","a","t","i","o","n","\n","2","0","2","0","\n">>,
      <<"C","l","i","e","n","t","\n","B","e","t","a","\n","T","i","t","l","e","\n","Q","A","\n","D","u","r","a","t","i","o","n","\n","2","0","2","1","\n">>,
      <<"R","e","s","p","o","n","s","i","b","i","l","i","t","i","e","s",":","\n","-"," ","r","1","\n","*"," ","r","2","\n">>,
      <<"E","n","v","i","r","o","n","m","e","n","t",":"," ","x","\n">>,
      <<"T","i","t","l","e","\n","D","e","v","\n">>,
      <<"C","l","i","e","n","t","\n">>,
      <<"\n">> }

InitExperience ==
    /\ pc = "parse_experience"
    /\ text \in TextsOf(ExperienceVocab, MaxExperienceWords)
    /\ contact = None /\ header_matches = None /\ idx = 0 /\ content = None
    /\ segmented_data = None /\ job_blocks = <<>> /\ experiences = <<>>
    /\ today = None /\ date_result = None /\ env = None /\ exit_status = -1
    /\ ner = None /\ parsed_output = None /\ locals = None /\ raised = ""
    /\ skill_lines = None /\ current_category = None /\ categorized_skills = None

\* lines 246-248
ExperienceSplit ==
    /\ pc = "parse_experience"
    /\ job_blocks' = SplitRe(MARKER_REGEX, text)
    /\ pc' = "experience_loop"
    /\ UNCHANGED <<skills_vars, text, contact, header_matches, idx, content, segmented_data,
                   experiences, today, date_result, env, exit_status, ner,
                   parsed_output, locals, raised>>

\* one iteration of lines 250-283
ExperienceBlockStep ==
    /\ pc = "experience_loop"
    /\ idx < Len(job_blocks)
    /\ experiences' = AfterBlock(experiences, job_blocks[idx + 1])
    /\ idx' = idx + 1
    /\ UNCHANGED <<skills_vars, pc, text, contact, header_matches, content, segmented_data,
                   job_blocks, today, date_result, env, exit_status, ner,
                   parsed_output, locals, raised>>

\* line 285
ExperienceReturn ==
    /\ pc = "experience_loop"
    /\ idx = Len(job_blocks)
    /\ pc' = "done"
    /\ UNCHANGED <<skills_vars, text, contact, header_matches, idx, content, segmented_data,
                   job_blocks, experiences, today, date_result, env, exit_status,
                   ner, parsed_output, locals, raised>>

NextExperience == ExperienceSplit \/ ExperienceBlockStep \/ ExperienceReturn

SpecExperience == InitExperience /\ [][NextExperience]_vars


\* the label lines of a job entry
IsLabel(line) == Lower(Strip(line)) \in {<<"c","l","i","e","n","t">>, <<"t","i","t","l","e">>, <<"d","u","r","a","t","i","o","n">>}
IsValue(line) == Strip(line) # <<>> /\ ~IsLabel(line)

\* the six lines from line k on are a "Client" marker line and the Client,
\* Title and Duration fields, in that order
JobAt(ls, k) ==
    /\ ls[k] = <<"C","l","i","e","n","t">> /\ IsValue(ls[k + 1])
    /\ ls[k + 2] = <<"T","i","t","l","e">> /\ IsValue(ls[k + 3])
    /\ ls[k + 4] = <<"D","u","r","a","t","i","o","n">> /\ IsValue(ls[k + 5])

\* the text is two such job entries and nothing else
TwoJobs(ls) == Len(ls) = 13 /\ JobAt(ls, 1) /\ JobAt(ls, 7) /\ ls[13] = <<>>

\* the entry the six lines from line k on describe
EntryIs(entry, ls, k) ==
    /\ {"Client", "Title", "Duration"} \subseteq DOMAIN entry
    /\ entry["Client"] = Strip(BeforeComma(ls[k + 1]))
    /\ entry["Title"] = Strip(ls[k + 3])
    /\ entry["Duration"] = Strip(ls[k + 5])

\* C3: an experience text of two "Client" marker lines, each followed by its
\* Client, Title and Duration fields in that order, gives exactly two entries,
\* each with Client, Title and Duration, in document order.
C3_TwoMarkersTwoEntries ==
    (pc = "done" /\ TwoJobs(Lines(text))) =>
        /\ Len(experiences) = 2
        /\ EntryIs(experiences[1], Lines(text), 1)
        /\ EntryIs(experiences[2], Lines(text), 7)

\* C4: a job block in which the Client/Title/Duration pattern does not match
\* adds no entry to the result, whatever else it contains, and the loop goes
\* on to the next block.
C4_UnmatchedBlockSkipped ==
    [][(pc = "experience_loop" /\ idx < Len(job_blocks)
        /\ ~Search(CLIENT_REGEX, Strip(job_blocks[idx + 1])).ok)
       => (experiences' = experiences /\ idx' = idx + 1 /\ pc' = pc)]_vars
----------------------------------------------------------------------------
(* Specification of parse_date_range on bounded date strings *)

MaxDateWords == 3

DateVocab ==
    { <<"J","a","n","u","a","r","y"," ","2","0","2","0">>, <<"m","a","y"," ","2","0","2","1">>, <<"2","0","2","0","-","0","1","-","0","1">>, <<"2","0","1","9","/","2","/","2","9">>, <<"0","1","/","3","1","/","2","0","2","0">>,
      <<"2","0","2","0">>, <<" ","-"," ">>, <<" ","ENDASH"," ">>, <<"P","r","e","s","e","n","t">>, <<"x">> }

\* the values datetime.now() takes here
Todays == {<<2026, 11, 1>>, <<2024, 2, 29>>}

InitDate ==
    /\ pc = "parse_date_range"
    /\ text \in TextsOf(DateVocab, MaxDateWords)
    /\ today \in Todays
    /\ contact = None /\ header_matches = None /\ idx = 0 /\ content = None
    /\ segmented_data = None /\ job_blocks = None /\ experiences = None
    /\ date_result = <<>> /\ env = None /\ exit_status = -1
    /\ ner = None /\ parsed_output = None /\ locals = None /\ raised = ""
    /\ skill_lines = None /\ current_category = None /\ categorized_skills = None

\* lines 55-85
ParseDateRange ==
    /\ pc = "parse_date_range"
    /\ date_result' = parse_date_range(text, today)
    /\ pc' = "done"
    /\ UNCHANGED <<skills_vars, text, contact, header_matches, idx, content, segmented_data,
                   job_blocks, experiences, today, env, exit_status, ner,
                   parsed_output, locals, raised>>

NextDate == ParseDateRange

SpecDate == InitDate /\ [][NextDate]_vars

\* "<Month> <Year>": a month name or its abbreviation, one space, four digits
IsMonthYear(s) ==
    \E k \in 1..Len(s) :
        /\ s[k] = " "
        /\ \E m \in 1..12 : Lower(SubSeq(s, 1, k - 1)) \in {MonthNames[m], MonthAbbrs[m]}
        /\ Len(s) = k + 4
        /\ \A j \in (k + 1)..Len(s) : IsDigit(s[j])

\* "<Month> <Year> - Present"
ToPresent == <<" ","-"," ","P","r","e","s","e","n","t">>
IsMonthYearToPresent(s) ==
    /\ Len(s) > Len(ToPresent)
    /\ SubSeq(s, Len(s) - Len(ToPresent) + 1, Len(s)) = ToPresent
    /\ IsMonthYear(SubSeq(s, 1, Len(s) - Len(ToPresent)))

\* the first day of the month of a "<Month> <Year>", as YYYY-MM-DD
FirstDayOf(s) ==
    LET k == CHOOSE j \in 1..Len(s) : s[j] = " "
        m == CHOOSE j \in 1..12 : Lower(SubSeq(s, 1, k - 1)) \in {MonthNames[j], MonthAbbrs[j]}
    IN  SubSeq(s, k + 1, Len(s)) \o <<"-">> \o Pad2(m) \o <<"-","0","1">>

\* C5: for "<Month> <Year> - Present" the start is the first day of that month
\* as YYYY-MM-DD and the end is the current date in full YYYY-MM-DD form.
C5_PresentEndsToday ==
    (pc = "done" /\ IsMonthYearToPresent(text)) =>
        /\ date_result[1] = FirstDayOf(SubSeq(text, 1, Len(text) - Len(ToPresent)))
        /\ date_result[2] = FormatDate(today)

\* a single date in YYYY-MM-DD form
IsCanonicalDate(s) ==
    /\ Len(s) = 10
    /\ s[5] = "-" /\ s[8] = "-"
    /\ \A j \in {1, 2, 3, 4, 6, 7, 9, 10} : IsDigit(s[j])

\* C6: for an input that is a single date in YYYY-MM-DD form, the returned
\* start is that same string.
C6_CanonicalStartUnchanged ==
    (pc = "done" /\ IsCanonicalDate(text)) => date_result[1] = text

----------------------------------------------------------------------------
(* Specification of the program: python run_parser.py [file], which imports
   the parser, reads the file and prints parse_resume of its text *)

MaxResumeWords == 2

ResumeVocab ==
    { <<"J","a","n","e"," ","D","o","e","\n","W","e","b"," ","D","e","v","e","l","o","p","e","r","\n","j","o","@","b",".","c","o","\n">>,
      <<"A","L"," ","B","O","\n","P","r","o","f","e","s","s","i","o","n","a","l"," ","S","u","m","m","a","r","y",":","\n","G","o","o","d",".","\n">>,
      <<"P","r","o","f","e","s","s","i","o","n","a","l"," ","E","x","p","e","r","i","e","n","c","e",":","\n","C","l","i","e","n","t","\n","B","\n","T","i","t","l","e","\n","Q","A","\n","D","u","r","a","t","i","o","n","\n","2","0","2","1","\n","E","n","v","i","r","o","n","m","e","n","t",":"," ","x","\n">>,
      <<"R","e","s","p","o","n","s","i","b","i","l","i","t","i","e","s",":","\n","-"," ","r","1","\n">>,
      <<"E","d","u","c","a","t","i","o","n","a","l",":","\n","B","a","c","h","e","l","o","r"," ","o","f"," ","T","e","c","h","n","o","l","o","g","y"," ","i","n"," ","C","S"," ","f","r","o","m"," ","M","I","T",","," ","B","o","s","t","o","n","\n","M","a","s","t","e","r","s"," ","f","r","o","m"," ","L","U",","," ","T","e","x","a","s",".","\n","(","J","a","n"," ","2","0","1","6"," ","-"," ","D","e","c"," ","2","0","1","7",")","\n">>,
      <<"A","R","E","A","S"," ","O","F"," ","E","X","P","E","R","T","I","S","E",":","\n","D","a","t","a","b","a","s","e","s","\n","M","y","S","Q","L",";"," ","O","r","a","c","l","e","\n","E","-","c","o","m","m","e","r","c","e"," ","R","e","c","o","m","m","e","n","d","a","t","i","o","n"," ","S","y","s","t","e","m"," ","-"," ","u","s","e","s"," ","P","y","t","h","o","n","."," ","L","i","n","k",":"," ","x",".","i","o","\n">> }

\* sys.argv[1], <<>> when the program is run without an argument
Argvs == {<<>>, <<"c","v",".","p","d","f">>, <<"C","V",".","D","o","c","x">>, <<"c","v",".","t","x","t">>}

\* what the program finds outside itself: its argument, whether the language
\* model is installed, what open() does, whether the decoder and the
\* recognizer raise
Envs ==
    [argv : Argvs, model : {"ok", "missing"}, file : {"missing", "denied", "readable"},
     decoder : {"ok", "raises"}, nlp : {"ok", "raises"}]

\* the recognizer's answers for the first two lines: the label of the entity
\* it finds on each, "" for none
NerAnswers == {<<"", "">>, <<"PERSON", "">>, <<"ORG", "PERSON">>}

\* str.endswith(suffix)
EndsWith(s, suffix) ==
    Len(s) >= Len(suffix) /\ SubSeq(s, Len(s) - Len(suffix) + 1, Len(s)) = suffix

\* text_extractor, lines 35-38
IsSupported(file_path) ==
    EndsWith(Lower(file_path), <<".","p","d","f">>) \/ EndsWith(Lower(file_path), <<".","d","o","c","x">>)

\* the environments in which a text comes out of the file
Decodes(e) ==
    /\ e.argv # <<>> /\ e.model = "ok" /\ e.file = "readable"
    /\ IsSupported(e.argv) /\ e.decoder = "ok"

Unbound ==
    [name |-> <<>>, overall_title |-> <<>>, contact_info |-> <<>>,
     segmented_text |-> <<>>, summary |-> <<>>, experience_data |-> <<>>,
     education_data |-> <<>>, skills_data |-> <<>>, projects_data |-> <<>>]

Init ==
    /\ pc = "import"
    /\ env \in Envs
    /\ text \in (IF Decodes(env) THEN TextsOf(ResumeVocab, MaxResumeWords) ELSE {<<>>})
    /\ ner = <<"", "">>
    /\ locals = Unbound
    /\ parsed_output = None
    /\ raised = ""
    /\ exit_status = -1
    /\ skill_lines = None /\ current_category = None /\ categorized_skills = None
    /\ contact = None /\ header_matches = None /\ idx = 0 /\ content = None
    /\ segmented_data = None /\ job_blocks = None /\ experiences = None
    /\ today = None /\ date_result = None

\* information_parser, lines 7-8: the language model loads
LoadModel ==
    /\ pc = "import"
    /\ env.model = "ok"
    /\ pc' = "main"
    /\ UNCHANGED <<skills_vars, text, contact, header_matches, idx, content, segmented_data,
                   job_blocks, experiences, today, date_result, env, exit_status, ner,
                   parsed_output, locals, raised>>

\* information_parser, lines 9-11: it is not installed; exit() ends the process
\* with status 0
ModelNotFound ==
    /\ pc = "import"
    /\ env.model = "missing"
    /\ exit_status' = 0
    /\ pc' = "exited"
    /\ UNCHANGED <<skills_vars, text, contact, header_matches, idx, content, segmented_data,
                   job_blocks, experiences, today, date_result, env, ner,
                   parsed_output, locals, raised>>

\* run_parser, lines 7-10
Usage ==
    /\ pc = "main"
    /\ env.argv = <<>>
    /\ exit_status' = 1
    /\ pc' = "exited"
    /\ UNCHANGED <<skills_vars, text, contact, header_matches, idx, content, segmented_data,
                   job_blocks, experiences, today, date_result, env, ner,
                   parsed_output, locals, raised>>

\* run_parser, lines 12-16
CallExtract ==
    /\ pc = "main"
    /\ env.argv # <<>>
    /\ pc' = "extract_text_from_file"
    /\ UNCHANGED <<skills_vars, text, contact, header_matches, idx, content, segmented_data,
                   job_blocks, experiences, today, date_result, env, exit_status, ner,
                   parsed_output, locals, raised>>

\* text_extractor, lines 32-40, and the decoders of lines 5-28: what
\* extract_text_from_file raises, "" when it returns the text
ExtractRaises(e) ==
    IF e.file = "missing" THEN "FileNotFoundError"
    ELSE IF e.file = "denied" THEN "PermissionError"
    ELSE IF ~IsSupported(e.argv) THEN "ValueError"
    ELSE IF e.decoder = "raises" THEN "Exception"
    ELSE ""

\* text_extractor, lines 30-40: the text is returned
ExtractText ==
    /\ pc = "extract_text_from_file"
    /\ ExtractRaises(env) = ""
    /\ pc' = "parse_resume"
    /\ UNCHANGED <<skills_vars, text, contact, header_matches, idx, content, segmented_data,
                   job_blocks, experiences, today, date_result, env, exit_status, ner,
                   parsed_output, locals, raised>>

\* text_extractor, lines 30-40: open(), the extension test or a decoder raises
ExtractFails ==
    /\ pc = "extract_text_from_file"
    /\ ExtractRaises(env) # ""
    /\ raised' = ExtractRaises(env)
    /\ pc' = "except"
    /\ UNCHANGED <<skills_vars, text, contact, header_matches, idx, content, segmented_data,
                   job_blocks, experiences, today, date_result, env, exit_status, ner,
                   parsed_output, locals>>

\* information_parser, line 396: nlp(raw_text)
Nlp ==
    /\ pc = "parse_resume"
    /\ env.nlp = "ok"
    /\ pc' = "extract_name_and_title"
    /\ UNCHANGED <<skills_vars, text, contact, header_matches, idx, content, segmented_data,
                   job_blocks, experiences, today, date_result, env, exit_status, ner,
                   parsed_output, locals, raised>>

\* information_parser, line 396: nlp raises (a text over its size limit)
NlpRaises ==
    /\ pc = "parse_resume"
    /\ env.nlp = "raises"
    /\ raised' = "ValueError"
    /\ pc' = "except"
    /\ UNCHANGED <<skills_vars, text, contact, header_matches, idx, content, segmented_data,
                   job_blocks, experiences, today, date_result, env, exit_status, ner,
                   parsed_output, locals>>

\* the assignment of lines 398-399, for a name and title pair
WithNameAndTitle(l, pair) == [l EXCEPT !.name = pair[1], !.overall_title = pair[2]]

\* information_parser, lines 398-399
ExtractNameAndTitle ==
    /\ pc = "extract_name_and_title"
    /\ \E answer \in NerAnswers :
        /\ ner' = answer
        /\ locals' = WithNameAndTitle(locals, extract_name_and_title(text, answer))
    /\ pc' = "extract_contact_info"
    /\ UNCHANGED <<skills_vars, text, contact, header_matches, idx, content, segmented_data,
                   job_blocks, experiences, today, date_result, env, exit_status,
                   parsed_output, raised>>

\* information_parser, lines 401-402
ContactInfo ==
    /\ pc = "extract_contact_info"
    /\ locals' = [locals EXCEPT !.contact_info = extract_contact_info(text)]
    /\ pc' = "section_text"
    /\ UNCHANGED <<skills_vars, text, contact, header_matches, idx, content, segmented_data,
                   job_blocks, experiences, today, date_result, env, exit_status, ner,
                   parsed_output, raised>>

\* information_parser, lines 404-406
SectionText ==
    /\ pc = "section_text"
    /\ locals' = [locals EXCEPT !.segmented_text = section_text(text)]
    /\ pc' = "summary"
    /\ UNCHANGED <<skills_vars, text, contact, header_matches, idx, content, segmented_data,
                   job_blocks, experiences, today, date_result, env, exit_status, ner,
                   parsed_output, raised>>

\* information_parser, lines 408-409
Summary ==
    /\ pc = "summary"
    /\ locals' = [locals EXCEPT
                    !.summary = Strip(Get(locals.segmented_text, "professional_summary"))]
    /\ pc' = "parse_experience"
    /\ UNCHANGED <<skills_vars, text, contact, header_matches, idx, content, segmented_data,
                   job_blocks, experiences, today, date_result, env, exit_status, ner,
                   parsed_output, raised>>

\* information_parser, lines 411-412
ParseExperience ==
    /\ pc = "parse_experience"
    /\ locals' = [locals EXCEPT !.experience_data =
                    parse_experience(Get(locals.segmented_text, "professional_experience"))]
    /\ pc' = "parse_education"
    /\ UNCHANGED <<skills_vars, text, contact, header_matches, idx, content, segmented_data,
                   job_blocks, experiences, today, date_result, env, exit_status, ner,
                   parsed_output, raised>>

\* information_parser, lines 414-415
ParseEducation ==
    /\ pc = "parse_education"
    /\ locals' = [locals EXCEPT !.education_data =
                    parse_education(Get(locals.segmented_text, "educational"))]
    /\ pc' = "parse_skills"
    /\ UNCHANGED <<skills_vars, text, contact, header_matches, idx, content, segmented_data,
                   job_blocks, experiences, today, date_result, env, exit_status, ner,
                   parsed_output, raised>>

\* information_parser, lines 417-418
ParseSkills ==
    /\ pc = "parse_skills"
    /\ locals' = [locals EXCEPT !.skills_data =
                    parse_skills(Get(locals.segmented_text, "areas_of_expertise"))]
    /\ pc' = "parse_projects"
    /\ UNCHANGED <<skills_vars, text, contact, header_matches, idx, content, segmented_data,
                   job_blocks, experiences, today, date_result, env, exit_status, ner,
                   parsed_output, raised>>

\* information_parser, lines 420-422
ParseProjects ==
    /\ pc = "parse_projects"
    /\ locals' = [locals EXCEPT !.projects_data =
                    parse_projects(Get(locals.segmented_text, "projects") \o <<"\n">> \o text)]
    /\ pc' = "return"
    /\ UNCHANGED <<skills_vars, text, contact, header_matches, idx, content, segmented_data,
                   job_blocks, experiences, today, date_result, env, exit_status, ner,
                   parsed_output, raised>>

\* information_parser, lines 424-441
ParseResumeReturn ==
    /\ pc = "return"
    /\ parsed_output' = ParsedOutput(locals)
    /\ pc' = "json_dumps"
    /\ UNCHANGED <<skills_vars, text, contact, header_matches, idx, content, segmented_data,
                   job_blocks, experiences, today, date_result, env, exit_status, ner,
                   locals, raised>>

\* run_parser, lines 23-24
JsonDumps ==
    /\ pc = "json_dumps"
    /\ pc' = "end"
    /\ UNCHANGED <<skills_vars, text, contact, header_matches, idx, content, segmented_data,
                   job_blocks, experiences, today, date_result, env, exit_status, ner,
                   parsed_output, locals, raised>>

\* run_parser, lines 26-31: every exception is caught and reported
Except ==
    /\ pc = "except"
    /\ pc' = "end"
    /\ UNCHANGED <<skills_vars, text, contact, header_matches, idx, content, segmented_data,
                   job_blocks, experiences, today, date_result, env, exit_status, ner,
                   parsed_output, locals, raised>>

\* run_parser, lines 33-34: main() returns and the interpreter exits with 0
MainReturns ==
    /\ pc = "end"
    /\ exit_status' = 0
    /\ pc' = "exited"
    /\ UNCHANGED <<skills_vars, text, contact, header_matches, idx, content, segmented_data,
                   job_blocks, experiences, today, date_result, env, ner,
                   parsed_output, locals, raised>>

Next ==
    \/ LoadModel \/ ModelNotFound \/ Usage \/ CallExtract \/ ExtractText
    \/ ExtractFails \/ Nlp \/ NlpRaises \/ ExtractNameAndTitle \/ ContactInfo
    \/ SectionText \/ Summary \/ ParseExperience \/ ParseEducation \/ ParseSkills
    \/ ParseProjects \/ ParseResumeReturn \/ JsonDumps \/ Except \/ MainReturns

Spec == Init /\ [][Next]_vars

\* C9: the program exits with a non-zero status whenever the file is missing,
\* the extension is unsupported, or anything else fails during extraction or
\* parsing.
C9_FailureExitsNonZero ==
    (pc = "exited" /\ raised # "") => exit_status # 0

\* the optional keys of the entries
ExperienceOptional == {"Location", "Responsibilities"}
EducationOptional == {"Field", "Location", "Duration"}

\* C10: in the record parse_resume returns, every entry of Experience has the
\* keys Location and Responsibilities and every entry of Education has the keys
\* Field, Location and Duration, whatever the input.
C10_OptionalFieldsPresent ==
    pc = "json_dumps" =>
        /\ \A j \in 1..Len(parsed_output.Experience) :
               ExperienceOptional \subseteq DOMAIN parsed_output.Experience[j]
        /\ \A j \in 1..Len(parsed_output.Education) :
               EducationOptional \subseteq DOMAIN parsed_output.Education[j]

\* the record with every field at its empty default; the empty string, the
\* empty sequence and the empty mapping are all <<>> here
EmptyRecord ==
    [Name |-> <<>>, Title |-> <<>>, Contact |-> <<>>, Summary |-> <<>>,
     Skills |-> <<>>, Education |-> <<>>, Experience |-> <<>>, Projects |-> <<>>,
     Awards |-> <<>>, Certifications |-> <<>>]

\* the run reads an empty document and the recognizer answers
EmptyDocument == Decodes(env) /\ env.nlp = "ok" /\ text = <<>>

\* C11: parse_resume on an empty document raises no error and returns the
\* record with every field at its empty default: Name, Title and Summary empty
\* strings, Contact and Skills empty mappings, Education, Experience, Projects,
\* Awards and Certifications empty sequences.
C11_EmptyDocumentDefaults ==
    EmptyDocument =>
        /\ raised = ""
        /\ pc \in {"json_dumps", "end", "exited"} => parsed_output = EmptyRecord

C11_Witness == EmptyDocument /\ pc = "json_dumps" /\ parsed_output = EmptyRecord

----------------------------------------------------------------------------
(* Specification of parse_skills, one step per line *)

MaxSkillsWords == 4

SkillsVocab ==
    { <<"D","a","t","a","b","a","s","e","s","\n">>, <<"M","y","S","Q","L",","," ","P","o","s","t","g","r","e","S","Q","L","\n">>, <<"T","e","s","t","i","n","g"," ","T","o","o","l","s","\n">>, <<"S","e","l","e","n","i","u","m","\n">>,
      <<"d","a","t","a","b","a","s","e","s"," ","\n">>, <<";","a"," ",",",";"," ","b",",","\n">>, <<"\n">> }

InitSkills ==
    /\ pc = "parse_skills"
    /\ text \in TextsOf(SkillsVocab, MaxSkillsWords)
    /\ skill_lines = <<>> /\ current_category = <<>> /\ categorized_skills = EmptyDict
    /\ contact = None /\ header_matches = None /\ idx = 0 /\ content = None
    /\ segmented_data = None /\ job_blocks = None /\ experiences = None
    /\ today = None /\ date_result = None /\ env = None /\ exit_status = -1
    /\ ner = None /\ parsed_output = None /\ locals = None /\ raised = ""

\* lines 323-326
SkillsLines ==
    /\ pc = "parse_skills"
    /\ skill_lines' = StrippedLines(text)
    /\ categorized_skills' = EmptyDict
    /\ current_category' = <<>>
    /\ pc' = "skills_loop"
    /\ UNCHANGED <<text, contact, header_matches, idx, content, segmented_data,
                   job_blocks, experiences, today, date_result, env, exit_status,
                   ner, parsed_output, locals, raised>>

\* the pair SkillsStep returns, stored
SkillsStored(st) == categorized_skills' = st[1] /\ current_category' = st[2]

\* one iteration of lines 327-349
SkillsLineStep ==
    /\ pc = "skills_loop"
    /\ idx < Len(skill_lines)
    /\ SkillsStored(SkillsStep(<<categorized_skills, current_category>>,
                               skill_lines[idx + 1],
                               CategoryFrom(skill_lines[idx + 1], 1)))
    /\ idx' = idx + 1
    /\ UNCHANGED <<pc, text, skill_lines, contact, header_matches, content,
                   segmented_data, job_blocks, experiences, today, date_result, env,
                   exit_status, ner, parsed_output, locals, raised>>

\* line 351
SkillsReturn ==
    /\ pc = "skills_loop"
    /\ idx = Len(skill_lines)
    /\ pc' = "done"
    /\ UNCHANGED <<skills_vars, text, contact, header_matches, idx, content,
                   segmented_data, job_blocks, experiences, today, date_result, env,
                   exit_status, ner, parsed_output, locals, raised>>

NextSkills == SkillsLines \/ SkillsLineStep \/ SkillsReturn

SpecSkills == InitSkills /\ [][NextSkills]_vars

----------------------------------------------------------------------------
(* Claims about parse_skills *)

\* the line is, but for case, a configured category name
IsCategoryLine(line) ==
    \E k \in 1..Len(SKILL_CATEGORIES) : Lower(line) = Lower(SKILL_CATEGORIES[k])
NamedCategory(line) ==
    SKILL_CATEGORIES[CHOOSE k \in 1..Len(SKILL_CATEGORIES) :
                        Lower(line) = Lower(SKILL_CATEGORIES[k])]

\* the tokens of a line: its maximal stretches without a comma or semicolon,
\* trimmed, the empty ones left out, in order
IsDelimiter(ch) == ch \in {",", ";"}
TokenStarts(line) ==
    {a \in 1..Len(line) : ~IsDelimiter(line[a]) /\ (a = 1 \/ IsDelimiter(line[a - 1]))}
TokenEnd(line, a) ==
    SetMin({b \in a..Len(line) : b = Len(line) \/ IsDelimiter(line[b + 1])})
RECURSIVE TokensOf(_, _)
TokensOf(line, starts) ==
    IF starts = {} THEN <<>>
    ELSE LET a == SetMin(starts)
             token == Strip(SubSeq(line, a, TokenEnd(line, a)))
         IN  (IF token # <<>> THEN <<token>> ELSE <<>>) \o TokensOf(line, starts \ {a})

\* the mapping d with key k set to v and every other key as it was
Only(d, k, v) == [x \in (DOMAIN d) \cup {k} |-> IF x = k THEN v ELSE d[x]]

\* what the claim says one line does to the cursor and the mapping
LineScanned(line) ==
    IF IsCategoryLine(line)
    THEN /\ current_category' = NamedCategory(line)
         /\ categorized_skills' = Only(categorized_skills, NamedCategory(line), <<>>)
    ELSE IF current_category = <<>>
    THEN current_category' = <<>> /\ categorized_skills' = categorized_skills
    ELSE /\ current_category' = current_category
         /\ categorized_skills' =
                Only(categorized_skills, current_category,
                     categorized_skills[current_category] \o TokensOf(line, TokenStarts(line)))

\* the example of the claim and its result
SkillsExample == <<"D","a","t","a","b","a","s","e","s","\n","M","y","S","Q","L",","," ","P","o","s","t","g","r","e","S","Q","L","\n","T","e","s","t","i","n","g"," ","T","o","o","l","s","\n","S","e","l","e","n","i","u","m","\n">>
SkillsExampleResult ==
    [k \in {<<"D","a","t","a","b","a","s","e","s">>, <<"T","e","s","t","i","n","g"," ","T","o","o","l","s">>} |->
        IF k = <<"D","a","t","a","b","a","s","e","s">> THEN << <<"M","y","S","Q","L">>, <<"P","o","s","t","g","r","e","S","Q","L">> >> ELSE << <<"S","e","l","e","n","i","u","m">> >>]

\* the states the scan passes through
SkillsStates ==
    /\ (pc = "skills_loop" /\ idx = 0) =>
            (current_category = <<>> /\ categorized_skills = EmptyDict)
    /\ (pc = "done" /\ text = SkillsExample) => categorized_skills = SkillsExampleResult
    /\ (pc = "done" /\ \A k \in 1..Len(skill_lines) : ~IsCategoryLine(skill_lines[k])) =>
            categorized_skills = EmptyDict

\* C12: parse_skills scans the lines in order with a category cursor: lines
\* before the first category header add nothing, a line that is a category name
\* but for case sets the cursor and makes that category's list empty, and any
\* other line appends its comma- or semicolon-separated trimmed non-empty
\* tokens, in order, to the current category only; the example text gives
\* Databases: MySQL, PostgreSQL and Testing Tools: Selenium, and a text without
\* a category header gives the empty mapping.
C12_CursorScan ==
    /\ []SkillsStates
    /\ [][(pc = "skills_loop" /\ idx < Len(skill_lines))
          => (LineScanned(skill_lines[idx + 1]) /\ idx' = idx + 1)]_vars

C12_Witness ==
    pc = "done" /\ text = SkillsExample /\ categorized_skills = SkillsExampleResult

====
